---- MODULE Spec2Model ----
(***************************************************************************)
(* Model of the enrichment pipeline of latestgames-backend                 *)
(* (src/fix_orphans_and_enrich.py): the transport client, the crawlers,    *)
(* the upsert layer over the SQLite store, the completeness oracle and the *)
(* controller (list mode and full two-pass mode).                          *)
(*                                                                         *)
(* Representation of values                                                *)
(*   text      a sequence of tokens; a URL is its split on "/", a name is  *)
(*             its words with the token " " standing for white space.      *)
(*             Empty (<<>>) is the empty string, Null is None / SQL NULL.  *)
(*   optional  integer: <<>> is None / NULL, <<n>> is the integer n.       *)
(*   table     a bag of row tuples (row |-> number of copies).             *)
(***************************************************************************)
EXTENDS Integers, Sequences, FiniteSets, Bags, TLC

(* ------------------------------ bounds -------------------------------- *)

\* item IDs are 1..MaxId
MaxId == 2
\* list mode: at most MaxArgs IDs on the command line
MaxArgs == 2
\* full mode: the script is launched at most MaxLaunches times
MaxLaunches == 2

Ids == 1..MaxId

\* the transport client on its own: answers the provider gives to one call
MaxPlanLen == 3

\* pagination on its own: pages of a listing, entries per page, soft caps
MaxPages == 3
MaxPageSize == 3
MaxCap == 5

\* path segments of a URL given to a normalizer on its own
MaxSegs == 4

(* ------------------------------ values -------------------------------- *)

Null == <<"<null>">>
Empty == <<>>
NoInt == <<>>

\* Python truthiness of an optional string
Truthy(t) == t # Null /\ t # Empty

\* `x or None` on an optional string
OrNoneMutKeepsEmpty(t) == t
OrNone(t) == IF Truthy(t) THEN t ELSE Null

\* `x or None` on an optional number
OrNoneInt(n) == IF n # NoInt /\ n # <<0>> THEN n ELSE NoInt

\* SQL COALESCE(new, old) on text
CoalesceMutOld(new, old) == IF old # Null THEN old ELSE new
Coalesce(new, old) == IF new # Null THEN new ELSE old

\* SQL COALESCE(new, old) on optional integers
CoalesceInt(new, old) == IF new # NoInt THEN new ELSE old

RECURSIVE LStrip(_)
LStrip(t) == IF t # <<>> /\ Head(t) = " " THEN LStrip(Tail(t)) ELSE t

RECURSIVE RStrip(_)
RStrip(t) == IF t # <<>> /\ t[Len(t)] = " " THEN RStrip(SubSeq(t, 1, Len(t) - 1)) ELSE t

\* str.strip()
Strip(t) == RStrip(LStrip(t))

(* --------------------------- image URL normalizer ---------------------- *)

\* "https://media.rawg.io/media/" split on "/" (the trailing "/" means a
\* further token follows)
MEDIA_PREFIX == <<"https:", "", "media.rawg.io", "media">>

\* MEDIA_PREFIX in url
HasMediaPrefix(url) ==
    \E i \in 1..Len(url) :
        /\ i + Len(MEDIA_PREFIX) <= Len(url)
        /\ SubSeq(url, i, i + Len(MEDIA_PREFIX) - 1) = MEDIA_PREFIX

\* index of the first "/media/" of url
FirstMedia(url) ==
    CHOOSE j \in 2..(Len(url) - 1) :
        /\ url[j] = "media"
        /\ \A k \in 2..(j - 1) : url[k] # "media"

\* parts.index("games"), 0 when absent (ValueError)
IndexOfGames(parts) ==
    IF \E i \in 1..Len(parts) : parts[i] = "games"
    THEN CHOOSE i \in 1..Len(parts) :
            parts[i] = "games" /\ \A k \in 1..(i - 1) : parts[k] # "games"
    ELSE 0

normalize_rawg_image(url) ==
    IF ~Truthy(url) \/ ~HasMediaPrefix(url) THEN url
    ELSE LET parts == SubSeq(url, FirstMedia(url) + 1, Len(url))
             gi == IndexOfGames(parts)
             tail == IF parts[1] \in {"crop", "resize"} /\ gi > 0
                     THEN SubSeq(parts, gi, Len(parts))
                     ELSE parts
         IN MEDIA_PREFIX \o tail

\* normalize_rawg_image of fetch_games.py: the test is "/media/" in url, and
\* the result always starts with the media host of the provider
fetch_games_normalize_rawg_image(url) ==
    IF ~Truthy(url) \/ ~(\E j \in 2..(Len(url) - 1) : url[j] = "media") THEN url
    ELSE LET parts == SubSeq(url, FirstMedia(url) + 1, Len(url))
             gi == IndexOfGames(parts)
             kept == IF parts[1] \in {"crop", "resize"} /\ gi > 0
                     THEN SubSeq(parts, gi, Len(parts))
                     ELSE parts
         IN <<"https:", "", "media.rawg.io", "media">> \o kept

(* ------------------------------ utility ------------------------------- *)

MetascoreMutGreen74(score) ==
    IF score = NoInt THEN Null
    ELSE IF 74 <= score[1] /\ score[1] <= 100 THEN <<"green">>
    ELSE IF 50 <= score[1] /\ score[1] <= 73 THEN <<"yellow">>
    ELSE IF 0 <= score[1] /\ score[1] <= 49 THEN <<"red">>
    ELSE Null

metascore_color(score) ==
    IF score = NoInt THEN Null
    ELSE LET s == score[1]
         IN IF 75 <= s /\ s <= 100 THEN <<"green">>
            ELSE IF 50 <= s /\ s <= 74 THEN <<"yellow">>
            ELSE IF 0 <= s /\ s <= 49 THEN <<"red">>
            ELSE Null

(* --------------------------- transport client -------------------------- *)

max_retries == 3

\* One upstream answer to one request: the request raised (exc), or a
\* response with a status and a body that parses as JSON or does not.
Resp(status) == [status |-> status, json |-> TRUE, exc |-> FALSE]
BadBody == [status |-> 200, json |-> FALSE, exc |-> FALSE]
NetError == [status |-> 0, json |-> FALSE, exc |-> TRUE]

\* the answer to the n-th request of a call: a plan is the sequence of
\* answers upstream gives, its last answer repeating
Answer(plan, n) == IF n <= Len(plan) THEN plan[n] ELSE plan[Len(plan)]

RaisesMutNever(status) == FALSE

\* r.raise_for_status(): raises for 4xx and 5xx
RaisesForStatus(status) == 400 <= status /\ status <= 599

\* _rawg_get from attempt `attempt` on: [out, n] with out one of
\*   "json"  the parsed body is returned
\*   "none"  None is returned
\*   "raise" an exception leaves the call
\* and n the number of requests issued
RECURSIVE RawgLoop(_, _)
RawgLoop(plan, attempt) ==
    IF attempt > max_retries THEN [out |-> "none", n |-> attempt - 1]
    ELSE LET r == Answer(plan, attempt)
         IN IF r.exc THEN [out |-> "raise", n |-> attempt]
            ELSE IF r.status = 200
                 THEN [out |-> IF r.json THEN "json" ELSE "none", n |-> attempt]
            ELSE IF r.status = 404 THEN [out |-> "none", n |-> attempt]
            ELSE IF r.status = 429 THEN RawgLoop(plan, attempt + 1)
            ELSE IF r.status \in {500, 502, 503, 504} THEN RawgLoop(plan, attempt + 1)
            ELSE IF RaisesForStatus(r.status) THEN [out |-> "raise", n |-> attempt]
            ELSE RawgLoop(plan, attempt + 1)

RawgGetMut404Raises(plan) ==
    IF Answer(plan, 1).status = 404 /\ ~Answer(plan, 1).exc
    THEN [out |-> "raise", n |-> 1]
    ELSE RawgLoop(plan, 1)

RawgGetMut404Retried(plan) ==
    IF Answer(plan, 1).status = 404 /\ ~Answer(plan, 1).exc
    THEN RawgLoop(plan, 2)
    ELSE RawgLoop(plan, 1)

RawgGetMutExhaustedRaises(plan) ==
    LET r == RawgLoop(plan, 1)
        last == Answer(plan, r.n)
    IN IF r.out = "none" /\ ~last.exc /\ last.status \in {429, 500, 502, 503, 504}
       THEN [out |-> "raise", n |-> r.n]
       ELSE r

_rawg_get(plan) == RawgLoop(plan, 1)

\* http_get of fetch_games.py takes three attempts by default
retries == 3

\* http_get of fetch_games.py: [out, n] as for _rawg_get. The whole attempt
\* sits in a try block whose `except Exception` sleeps and goes on to the
\* next attempt: that catches the exception of requests.get, the one of
\* r.json() on a body that does not parse, and the one raise_for_status
\* raises for a 4xx or 5xx status; a status raise_for_status lets pass falls
\* out of the try block into the next attempt as well
http_get(plan) ==
    LET loop[attempt \in 1..(retries + 1)] ==
            IF attempt > retries THEN [out |-> "none", n |-> attempt - 1]
            ELSE LET r == Answer(plan, attempt)
                 IN IF r.exc THEN loop[attempt + 1]
                    ELSE IF r.status = 200
                         THEN IF r.json THEN [out |-> "json", n |-> attempt]
                              ELSE loop[attempt + 1]
                    ELSE IF r.status \in {429, 500, 502, 503, 504} THEN loop[attempt + 1]
                    ELSE IF RaisesForStatus(r.status) THEN loop[attempt + 1]
                    ELSE loop[attempt + 1]
    IN loop[1]

(* ------------------------------ upstream ------------------------------ *)

\* The upstream provider, as far as one item is concerned: the content it
\* holds (data) and, for every endpoint, the answers it gives (plans).
Endpoints == {"details", "series", "additions", "shots1", "shots2", "movies", "suggested"}
SubEndpoints == Endpoints \ {"details"}

NotFound == <<Resp(404)>>
Exhausted == <<Resp(429), Resp(503), Resp(500)>>
Unparsable == <<BadBody>>
Forbidden == <<Resp(403)>>
Dropped == <<NetError>>

HardPlans == {Forbidden, Dropped}

AllOk == [e \in Endpoints |-> <<Resp(200)>>]
OneBad(e, p) == [AllOk EXCEPT ![e] = p]

\* every variant with every endpoint answering, and variant "a" with one
\* endpoint misbehaving
Snapshots ==
    {[data |-> v, plans |-> AllOk] : v \in {"a", "b", "sparse", "notags"}}
    \cup {[data |-> "a", plans |-> OneBad("details", p)] :
            p \in {NotFound, Exhausted, Unparsable, <<Resp(500), Resp(200)>>} \cup HardPlans}
    \cup {[data |-> "a", plans |-> OneBad(e, NotFound)] : e \in SubEndpoints}
    \cup {[data |-> "a", plans |-> OneBad(e, p)] :
            e \in {"series", "shots1", "movies"}, p \in HardPlans}
    \cup {[data |-> "a", plans |-> OneBad("shots2", Forbidden)],
          [data |-> "a", plans |-> OneBad("suggested", Dropped)]}

\* records for passes over changing detail records: the variants of full
\* records, the record with a few fields only, and "odd", a record whose
\* text fields are empty strings, whose rating is 0 and whose metacritic
\* lies outside 0..100, and "moved", a full record that reports another ID
\* than the one requested, and "numeric", a full record whose slug is a
\* decimal number
RecordSnapshots ==
    {[data |-> v, plans |-> AllOk] : v \in {"a", "b", "sparse", "odd", "moved", "numeric"}}
    \cup {[data |-> "a", plans |-> OneBad("details", NotFound)],
          [data |-> "a", plans |-> OneBad("details", Forbidden)],
          [data |-> "a", plans |-> OneBad("shots1", Forbidden)],
          [data |-> "a", plans |-> OneBad("movies", Dropped)]}

Url(path) == <<"https:", "", "media.rawg.io", "media">> \o path
Site(v) == <<"https:", "", "site-" \o v \o ".example">>

\* the detail record GET /games/{g} returns
Details(g, v) ==
    IF v = "odd"
    THEN [id |-> g, slug |-> Empty, name |-> Empty, released |-> Empty,
          rating |-> <<0>>, metacritic |-> <<150>>, description_raw |-> Empty,
          website |-> Empty, esrb_rating |-> Null,
          background_image |-> Empty, background_image_additional |-> Null,
          short_screenshots |-> <<>>,
          developers |-> <<>>, publishers |-> <<>>, tags |-> <<>>,
          genres |-> <<>>, platforms |-> <<>>, stores |-> <<>>]
    ELSE IF v = "sparse"
    THEN [id |-> g, slug |-> Null, name |-> <<"Sample">>, released |-> <<"2020-01-01">>,
          rating |-> NoInt, metacritic |-> <<82>>, description_raw |-> Null,
          website |-> Null, esrb_rating |-> Null,
          background_image |-> Null, background_image_additional |-> Null,
          short_screenshots |-> <<>>,
          developers |-> <<>>, publishers |-> <<>>, tags |-> <<>>,
          genres |-> <<[id |-> 4, name |-> <<"Action">>]>>,
          platforms |-> <<>>, stores |-> <<>>]
    ELSE LET w == IF v = "b" THEN "b" ELSE "a"
         IN [id |-> IF v = "moved" THEN g + MaxId ELSE g,
             slug |-> IF v = "numeric" THEN <<ToString(g + 1)>>
                      ELSE <<"game-" \o ToString(g)>>,
             name |-> <<"Game", w>>,
             released |-> <<"2021-0" \o ToString(g)>>,
             rating |-> IF w = "a" THEN <<4>> ELSE <<0>>,
             metacritic |-> IF w = "a" THEN <<60>> ELSE NoInt,
             description_raw |-> <<"about", w>>,
             website |-> Site(w),
             esrb_rating |-> IF w = "a" THEN <<"Teen">> ELSE <<"Mature">>,
             background_image |-> IF w = "a" THEN Url(<<"crop", "600", "400", "games", "bg-a.jpg">>)
                                  ELSE Empty,
             background_image_additional |-> IF w = "a" THEN Null
                                             ELSE Url(<<"games", "bg-b.jpg">>),
             short_screenshots |-> <<Url(<<"resize", "640", "-", "games", "s1.jpg">>)>>,
             developers |-> IF w = "a" THEN <<<<"Dev", " ">>, <<"Dev">>>> ELSE <<<<"Studio">>>>,
             publishers |-> <<<<"Pub", w>>>>,
             tags |-> IF v = "notags" THEN <<>> ELSE <<<<"Tag", w>>, Empty>>,
             genres |-> IF w = "a" THEN <<[id |-> 4, name |-> <<"Action">>]>>
                        ELSE <<[id |-> 5, name |-> <<"Action">>], [id |-> 0, name |-> <<"None">>]>>,
             platforms |-> IF w = "a" THEN <<[id |-> 4, name |-> <<"PC">>]>>
                           ELSE <<[id |-> 4, name |-> <<"PC">>], [id |-> 7, name |-> <<"Switch">>]>>,
             stores |-> IF w = "a"
                        THEN <<[id |-> 11, url |-> <<"https:", "", "steam.example", "a">>,
                                store |-> [id |-> 1, name |-> <<"Steam">>, slug |-> <<"steam">>,
                                           domain |-> <<"steam.example">>]]>>
                        ELSE <<[id |-> 12, url |-> Empty,
                                store |-> [id |-> 2, name |-> <<"GOG">>, slug |-> <<"gog">>,
                                           domain |-> Null]]>>]

\* results of GET /games/{g}/game-series
SeriesResults(v) ==
    IF v \in {"sparse", "odd"} THEN <<>>
    ELSE IF v = "b" THEN <<[name |-> <<"Saga", "II">>, slug |-> <<"saga-2">>],
                           [name |-> <<"NoSlug">>, slug |-> Null]>>
    ELSE <<[name |-> <<"Saga", " ">>, slug |-> <<"saga">>]>>

\* results of GET /games/{g}/additions
AdditionsResults(v) ==
    IF v \in {"sparse", "odd"} THEN <<>>
    ELSE IF v = "b" THEN <<[name |-> <<"DLC", "B">>, slug |-> <<"dlc-b">>]>>
    ELSE <<[name |-> <<"DLC">>, slug |-> <<"dlc">>], [name |-> <<"DLC">>, slug |-> <<"dlc">>]>>

\* pages of GET /games/{g}/screenshots: the entries' images and the next indicator
ShotPages(v) ==
    IF v \in {"sparse", "odd"} THEN <<[results |-> <<>>, next |-> FALSE]>>
    ELSE IF v = "b"
    THEN <<[results |-> <<Url(<<"games", "s2.jpg">>), Url(<<"games", "s1.jpg">>)>>, next |-> FALSE]>>
    ELSE <<[results |-> <<Url(<<"crop", "600", "400", "games", "s1.jpg">>), Null>>, next |-> TRUE],
           [results |-> <<Url(<<"games", "s2.jpg">>)>>, next |-> FALSE]>>

\* results of GET /games/{g}/movies
MovieResults(v) ==
    IF v \in {"sparse", "odd"} THEN <<>>
    ELSE IF v = "b"
    THEN <<[max |-> Null, low |-> Null, preview |-> Null, name |-> <<"broken">>],
           [max |-> Null, low |-> <<"https:", "", "cdn.example", "m480.mp4">>,
            preview |-> Url(<<"resize", "640", "-", "games", "p2.jpg">>), name |-> <<"clip">>]>>
    ELSE <<[max |-> <<"https:", "", "cdn.example", "m1.mp4">>, low |-> Null,
            preview |-> Url(<<"movies", "p1.jpg">>), name |-> <<"trailer">>]>>

\* results of GET /games/{g}/suggested
SuggestedResults(v) ==
    IF v \in {"sparse", "odd"} THEN <<>>
    ELSE IF v = "b"
    THEN <<[id |-> 31, name |-> <<"Like", "B">>, background_image |-> Null, released |-> Null,
            metacritic |-> NoInt, platforms |-> <<>>, genres |-> <<>>]>>
    ELSE <<[id |-> 21, name |-> <<"Like", "1">>,
            background_image |-> Url(<<"crop", "600", "400", "games", "l1.jpg">>),
            released |-> <<"2019-05-05">>, metacritic |-> <<90>>,
            platforms |-> <<<<"PC">>, Null, <<"Xbox">>>>, genres |-> <<<<"RPG">>, <<"Indie">>>>],
           [id |-> 22, name |-> <<"Like", "2">>,
            background_image |-> Url(<<"games", "l2.jpg">>),
            released |-> <<"2018-01-01">>, metacritic |-> <<40>>,
            platforms |-> <<>>, genres |-> <<<<"RPG">>>>]>>

(* ------------------------------- store -------------------------------- *)

\* The tables the bootstrap script made before ensure_schema ran:
\*   "games_only"         only the games table existed, ensure_schema created
\*                        every other table with its own constraints
\*   "db_prepare_BEFORE"  db_prepare_BEFORE.py created the tables it knows;
\*                        CREATE TABLE IF NOT EXISTS then keeps their shape
Bootstraps == {"games_only", "db_prepare_BEFORE"}

\* unique constraints (sets of column numbers) of game_series_links and
\* game_additions_links
LinkUniq(boot) == IF boot = "games_only" THEN {{1, 2, 3}} ELSE {}

\* unique constraints of genres and of platforms
VocabUniq(boot) == IF boot = "games_only" THEN {{1}, {2}} ELSE {{1}}

\* the row conflicts with a row of the table on one of the constraints
Conflicts(table, row, uniq) ==
    {r \in BagToSet(table) : \E K \in uniq : \A c \in K : r[c] = row[c]}

\* INSERT OR IGNORE
InsertOrIgnore(table, row, uniq) ==
    IF Conflicts(table, row, uniq) # {} THEN table ELSE table (+) SetToBag({row})

\* executemany of INSERT OR IGNORE
RECURSIVE InsertAllOrIgnore(_, _, _)
InsertAllOrIgnore(table, rows, uniq) ==
    IF rows = <<>> THEN table
    ELSE IF Conflicts(table, Head(rows), uniq) # {}
    THEN InsertAllOrIgnore(table, Tail(rows), uniq)
    ELSE InsertAllOrIgnore(table (+) SetToBag({Head(rows)}), Tail(rows), uniq)

\* executemany of INSERT: every row is added, as many times as it is listed
InsertAll(table, rows) ==
    table (+) [r \in {rows[i] : i \in DOMAIN rows} |->
                  Cardinality({i \in DOMAIN rows : rows[i] = r})]

\* executemany of INSERT OR REPLACE
RECURSIVE InsertAllOrReplace(_, _, _)
InsertAllOrReplace(table, rows, uniq) ==
    IF rows = <<>> THEN table
    ELSE LET gone == Conflicts(table, Head(rows), uniq)
             kept == [r \in BagToSet(table) \ gone |-> table[r]]
         IN InsertAllOrReplace(kept (+) SetToBag({Head(rows)}), Tail(rows), uniq)

\* SELECT 1 FROM table WHERE game_id = gid LIMIT 1 finds no row
NoRowFor(table, gid) == \A r \in BagToSet(table) : r[1] # gid

RowsFor(table, gid) == {r \in BagToSet(table) : r[1] = gid}

TableNames ==
    {"game_developers", "game_publishers", "game_tags", "game_series_links",
     "game_additions_links", "screenshots", "genres", "game_genres", "platforms",
     "game_platforms", "media", "stores", "game_stores", "game_suggestions"}

\* the store after ensure_schema on a store without items
EmptyDb ==
    [games |-> <<>>,
     game_developers |-> EmptyBag, game_publishers |-> EmptyBag, game_tags |-> EmptyBag,
     game_series_links |-> EmptyBag, game_additions_links |-> EmptyBag,
     screenshots |-> EmptyBag,
     genres |-> EmptyBag, game_genres |-> EmptyBag,
     platforms |-> EmptyBag, game_platforms |-> EmptyBag,
     media |-> EmptyBag, stores |-> EmptyBag, game_stores |-> EmptyBag,
     game_suggestions |-> EmptyBag]

(* ---------------------------- upsert layer ----------------------------- *)

choose_cover_from(details) ==
    IF Truthy(details.background_image)
    THEN normalize_rawg_image(details.background_image)
    ELSE IF Truthy(details.background_image_additional)
    THEN normalize_rawg_image(details.background_image_additional)
    ELSE LET imgs == SelectSeq(details.short_screenshots, Truthy)
         IN IF imgs # <<>> THEN normalize_rawg_image(imgs[1]) ELSE Null

\* the UPDATE of upsert_game_core on one row
CoreUpdate(old, about, website, age, cover, released, rating, slug, name, mscore, mcolor) ==
    [description |-> Coalesce(about, old.description),
     website |-> Coalesce(website, old.website),
     age_rating |-> Coalesce(age, old.age_rating),
     cover_image |-> Coalesce(cover, old.cover_image),
     released |-> Coalesce(released, old.released),
     rating |-> CoalesceInt(rating, old.rating),
     slug |-> Coalesce(slug, old.slug),
     name |-> Coalesce(name, old.name),
     metascore_number |-> CoalesceInt(mscore, old.metascore_number),
     metascore_color |-> Coalesce(mcolor, old.metascore_color)]

\* the row INSERT OR IGNORE INTO games (id, slug, name, released, rating) adds
NewGameRow(slug, name, released, rating) ==
    [description |-> Null, website |-> Null, age_rating |-> Null, cover_image |-> Null,
     released |-> released, rating |-> rating, slug |-> slug, name |-> name,
     metascore_number |-> NoInt, metascore_color |-> Null]


\* f with the value at key k set (k added to its domain when absent)
Put(f, k, v) == [x \in DOMAIN f \cup {k} |-> IF x = k THEN v ELSE f[x]]

upsert_game_core(db, details) ==
    LET gid == details.id
        slug == IF Truthy(details.slug) THEN details.slug ELSE <<ToString(gid)>>
        name == IF Truthy(details.name) THEN details.name ELSE slug
        released == OrNone(details.released)
        rating == OrNoneInt(details.rating)
        mscore == details.metacritic
        mcolor == metascore_color(mscore)
        inserted == IF gid \in DOMAIN db.games THEN db.games
                    ELSE Put(db.games, gid, NewGameRow(slug, name, released, rating))
        about == OrNone(details.description_raw)
        website == OrNone(details.website)
        age == OrNone(details.esrb_rating)
        cover == choose_cover_from(details)
    IN [db EXCEPT !.games =
            Put(inserted, gid,
                CoreUpdate(inserted[gid], about, website, age, cover, released, rating,
                           slug, name, mscore, mcolor))]

\* rows (gid, name.strip()) for the truthy names of a list
NameRows(gid, names) ==
    LET kept == SelectSeq(names, Truthy)
    IN [i \in 1..Len(kept) |-> <<gid, Strip(kept[i])>>]

upsert_lists(db, gid, details) ==
    [db EXCEPT
        !.game_developers = InsertAllOrIgnore(@, NameRows(gid, details.developers), {{1, 2}}),
        !.game_publishers = InsertAllOrIgnore(@, NameRows(gid, details.publishers), {{1, 2}}),
        !.game_tags = InsertAllOrIgnore(@, NameRows(gid, details.tags), {{1, 2}})]

\* the loop of upsert_genres_platforms over one list: [vocab, links]
RECURSIVE UpsertVocab(_, _, _, _, _)
UpsertVocab(vocab, links, gid, entries, boot) ==
    IF entries = <<>> THEN [vocab |-> vocab, links |-> links]
    ELSE LET e == Head(entries)
         IN IF e.id # 0 /\ Truthy(e.name)
            THEN UpsertVocab(InsertOrIgnore(vocab, <<e.id, Strip(e.name)>>, VocabUniq(boot)),
                             InsertOrIgnore(links, <<gid, e.id>>, {{1, 2}}),
                             gid, Tail(entries), boot)
            ELSE UpsertVocab(vocab, links, gid, Tail(entries), boot)

GenresPlatformsMutNoRows(db, gid, details, boot) == db

upsert_genres_platforms(db, gid, details, boot) ==
    LET g == UpsertVocab(db.genres, db.game_genres, gid, details.genres, boot)
        p == UpsertVocab(db.platforms, db.game_platforms, gid, details.platforms, boot)
    IN [db EXCEPT !.genres = g.vocab, !.game_genres = g.links,
                  !.platforms = p.vocab, !.game_platforms = p.links]

\* store_obj.get("id") or s.get("id")
StoreId(s) == IF s.store.id # 0 THEN s.store.id ELSE s.id

\* constraints of stores: the primary key, and the unique index on slug
\* (which never matches a NULL slug)
StoreUniq(row) == IF row[3] = Null THEN {{1}} ELSE {{1}, {3}}

RECURSIVE UpsertStores(_, _)
UpsertStores(stores, entries) ==
    IF entries = <<>> THEN stores
    ELSE LET s == Head(entries)
             row == <<StoreId(s), OrNone(s.store.name), OrNone(s.store.slug),
                      OrNone(s.store.domain)>>
         IN IF StoreId(s) # 0
            THEN UpsertStores(InsertOrIgnore(stores, row, StoreUniq(row)), Tail(entries))
            ELSE UpsertStores(stores, Tail(entries))

StoreLinkRows(gid, entries) ==
    LET HasId(s) == StoreId(s) # 0
        kept == SelectSeq(entries, HasId)
    IN [i \in 1..Len(kept) |-> <<gid, StoreId(kept[i]), OrNone(kept[i].url)>>]

upsert_store_links(db, gid, details) ==
    [db EXCEPT !.stores = UpsertStores(@, details.stores),
               !.game_stores = InsertAllOrIgnore(@, StoreLinkRows(gid, details.stores), {{1, 2}})]

(* ------------------------------ crawlers ------------------------------- *)

\* Soft quota for images (LG_MAX_IMAGES, default 50)
MAX_IMAGES == 50

\* the legacy screenshots table takes the first 40 images
LEGACY_LIMIT == 40

\* at most 8 suggestions are fetched and stored
SUGGEST_LIMIT == 8

\* fetch_details: [out, details]; details is meaningful when out = "json"
fetch_details(gid, snap) ==
    [out |-> _rawg_get(snap.plans["details"]).out, details |-> Details(gid, snap.data)]

\* the in-memory normalisation of the images embedded in the detail record
NormalizeEmbedded(details) ==
    [details EXCEPT
        !.background_image = normalize_rawg_image(@),
        !.background_image_additional = normalize_rawg_image(@),
        !.short_screenshots =
            [i \in 1..Len(@) |-> IF Truthy(@[i]) THEN normalize_rawg_image(@[i]) ELSE @[i]]]

\* str.rstrip("/") on a URL split on "/"
RECURSIVE RStripSlash(_)
RStripSlash(u) ==
    IF u # <<>> /\ u[Len(u)] = "" THEN RStripSlash(SubSeq(u, 1, Len(u) - 1)) ELSE u

\* rows (gid, name.strip(), "https://rawg.io/games/<slug>".rstrip("/"))
LinkRows(gid, results) ==
    LET Usable(s) == Truthy(s.name) /\ Truthy(s.slug)
        kept == SelectSeq(results, Usable)
    IN [i \in 1..Len(kept) |->
          <<gid, Strip(kept[i].name),
            RStripSlash(<<"https:", "", "rawg.io", "games">> \o kept[i].slug)>>]

\* what one try block of upsert_links gets: the results of the body, nothing
\* when _rawg_get returned None, nothing when it raised (except: pass)
TriedResults(plan, results) == IF _rawg_get(plan).out = "json" THEN results ELSE <<>>

upsert_links(db, gid, snap, boot) ==
    [db EXCEPT
        !.game_series_links =
            InsertAllOrIgnore(@, LinkRows(gid, TriedResults(snap.plans["series"],
                                                            SeriesResults(snap.data))),
                              LinkUniq(boot)),
        !.game_additions_links =
            InsertAllOrIgnore(@, LinkRows(gid, TriedResults(snap.plans["additions"],
                                                            AdditionsResults(snap.data))),
                              LinkUniq(boot))]

\* the inner loop of fetch_all_screenshots over one page: [out, full]
RECURSIVE AddImages(_, _, _)
AddImages(out, results, max_images) ==
    IF results = <<>> THEN [out |-> out, full |-> FALSE]
    ELSE IF ~Truthy(Head(results)) THEN AddImages(out, Tail(results), max_images)
    ELSE LET grown == Append(out, normalize_rawg_image(Head(results)))
         IN IF Len(grown) >= max_images THEN [out |-> grown, full |-> TRUE]
            ELSE AddImages(grown, Tail(results), max_images)

\* what the provider answers for the pages of a screenshots listing: for
\* each page the outcome of _rawg_get ("json", "none" or "raise"), the images
\* of its entries and whether it carries a next indicator
ShotAnswers(snap) ==
    [p \in 1..Len(ShotPages(snap.data)) |->
        [out |-> _rawg_get(snap.plans[IF p = 1 THEN "shots1" ELSE "shots2"]).out,
         results |-> ShotPages(snap.data)[p].results,
         next |-> ShotPages(snap.data)[p].next]]

\* the while loop of fetch_all_screenshots from page `page` on:
\* [raised, images, pages] with pages the number of page calls made; a page
\* the provider does not have answers 404
RECURSIVE CrawlLoop(_, _, _, _)
CrawlLoop(answers, page, out, max_images) ==
    LET r == IF page <= Len(answers) THEN answers[page]
             ELSE [out |-> "none", results |-> <<>>, next |-> FALSE]
        j == IF r.out = "json" THEN r ELSE [results |-> <<>>, next |-> FALSE]
        a == AddImages(out, j.results, max_images)
    IN IF r.out = "raise" THEN [raised |-> TRUE, images |-> <<>>, pages |-> page]
       ELSE IF a.full THEN [raised |-> FALSE, images |-> a.out, pages |-> page]
       ELSE IF ~j.next THEN [raised |-> FALSE, images |-> a.out, pages |-> page]
       ELSE CrawlLoop(answers, page + 1, a.out, max_images)

fetch_all_screenshots(snap, max_images) ==
    CrawlLoop(ShotAnswers(snap), 1, <<>>, max_images)

\* fetch_movies: [raised, videos], a video being [url, preview]
fetch_movies(snap) ==
    LET r == _rawg_get(snap.plans["movies"])
        results == IF r.out = "json" THEN MovieResults(snap.data) ELSE <<>>
        Source(m) == IF Truthy(m.max) THEN m.max ELSE m.low
        Playable(m) == Truthy(Source(m))
        kept == SelectSeq(results, Playable)
    IN [raised |-> r.out = "raise",
        videos |-> [i \in 1..Len(kept) |-> [url |-> Source(kept[i]), preview |-> kept[i].preview]]]

\* results[:limit]
FirstN(seq, n) == SubSeq(seq, 1, IF Len(seq) < n THEN Len(seq) ELSE n)

\* fetch_suggestions: [raised, sugg]
fetch_suggestions(snap, limit) ==
    LET r == _rawg_get(snap.plans["suggested"])
        results == IF r.out = "json" THEN SuggestedResults(snap.data) ELSE <<>>
        top == FirstN(results, limit)
    IN [raised |-> r.out = "raise",
        sugg |-> [i \in 1..Len(top) |->
                    [id |-> top[i].id, name |-> top[i].name,
                     image |-> normalize_rawg_image(top[i].background_image),
                     released |-> top[i].released, metacritic |-> top[i].metacritic,
                     platforms |-> top[i].platforms,
                     genres |-> SelectSeq(top[i].genres, Truthy)]]]

(* ---------------------------- media storage ---------------------------- *)

cover_fallback_from_images(db, gid, images) ==
    IF gid \notin DOMAIN db.games THEN db
    ELSE IF db.games[gid].cover_image # Null /\ Strip(db.games[gid].cover_image) # Empty THEN db
    ELSE IF images = <<>> THEN db
    ELSE [db EXCEPT !.games[gid].cover_image = images[1]]

LegacyMutAlways(db, gid) == TRUE

\* SELECT 1 FROM screenshots WHERE game_id = ? LIMIT 1 ... fetchone() is None
LegacyMayFill(db, gid) == NoRowFor(db.screenshots, gid)

StoreMediaImagesMutNoCap(db, gid, images) ==
    LET kept == SelectSeq(images, Truthy)
        rows_media == [i \in 1..Len(kept) |-> <<gid, "image", kept[i], Null, i>>]
        rows_legacy == [i \in 1..Len(kept) |-> <<gid, kept[i]>>]
    IN IF images = <<>> THEN db
       ELSE [db EXCEPT
               !.media = InsertAllOrIgnore(@, rows_media, {{1, 2, 3}}),
               !.screenshots = IF LegacyMayFill(db, gid) THEN InsertAll(@, rows_legacy) ELSE @]

store_media_images(db, gid, images) ==
    LET kept == SelectSeq(images, Truthy)
        rows_media == [i \in 1..Len(kept) |-> <<gid, "image", kept[i], Null, i>>]
        legacy == FirstN(kept, LEGACY_LIMIT)
        rows_legacy == [i \in 1..Len(legacy) |-> <<gid, legacy[i]>>]
    IN IF images = <<>> THEN db
       ELSE [db EXCEPT
               !.media = InsertAllOrIgnore(@, rows_media, {{1, 2, 3}}),
               !.screenshots = IF LegacyMayFill(db, gid) THEN InsertAll(@, rows_legacy) ELSE @]

store_media_videos(db, gid, videos) ==
    LET HasUrl(v) == Truthy(v.url)
        kept == SelectSeq(videos, HasUrl)
        rows == [i \in 1..Len(kept) |-> <<gid, "video", kept[i].url, kept[i].preview, i>>]
    IN [db EXCEPT !.media = InsertAllOrIgnore(@, rows, {{1, 2, 3}})]

\* "; ".join(texts), None when the list is empty
RECURSIVE Join(_)
Join(texts) ==
    IF texts = <<>> THEN <<>>
    ELSE IF Len(texts) = 1 THEN texts[1]
    ELSE texts[1] \o <<"; ">> \o Join(Tail(texts))

JoinOrNone(texts) == IF texts = <<>> THEN Null ELSE Join(texts)

store_suggestions(db, gid, suggestions) ==
    LET top == FirstN(suggestions, SUGGEST_LIMIT)
        rows == [i \in 1..Len(top) |->
                   <<gid, i, top[i].id, top[i].name, top[i].image,
                     JoinOrNone(SelectSeq(top[i].platforms, Truthy)),
                     top[i].metacritic, metascore_color(top[i].metacritic),
                     top[i].released, JoinOrNone(top[i].genres)>>]
    IN IF suggestions = <<>> THEN db
       ELSE [db EXCEPT !.game_suggestions = InsertAllOrReplace(@, rows, {{1, 2}})]

(* ------------------------- completeness oracle ------------------------- *)

\* COALESCE(col, '') = ''
Blank(t) == t = Null \/ t = Empty

NeedsMutNoTags(db, gid) ==
    \/ gid \notin DOMAIN db.games
    \/ /\ gid \in DOMAIN db.games
       /\ \/ Blank(db.games[gid].description) \/ Blank(db.games[gid].website)
          \/ Blank(db.games[gid].age_rating) \/ Blank(db.games[gid].cover_image)
          \/ NoRowFor(db.game_developers, gid) \/ NoRowFor(db.game_publishers, gid)
          \/ NoRowFor(db.game_series_links, gid) \/ NoRowFor(db.game_additions_links, gid)
          \/ NoRowFor(db.game_genres, gid) \/ NoRowFor(db.game_platforms, gid)
          \/ NoRowFor(db.game_stores, gid)

needs_enrich(db, gid) ==
    IF gid \notin DOMAIN db.games THEN TRUE
    ELSE LET row == db.games[gid]
             no_about == Blank(row.description)
             no_site == Blank(row.website)
             no_age == Blank(row.age_rating)
             no_cover == Blank(row.cover_image)
             no_devs == NoRowFor(db.game_developers, gid)
             no_pubs == NoRowFor(db.game_publishers, gid)
             no_tags == NoRowFor(db.game_tags, gid)
             no_series == NoRowFor(db.game_series_links, gid)
             no_adds == NoRowFor(db.game_additions_links, gid)
             no_genres == NoRowFor(db.game_genres, gid)
             no_platforms == NoRowFor(db.game_platforms, gid)
             no_stores == NoRowFor(db.game_stores, gid)
         IN \/ no_about \/ no_site \/ no_age \/ no_cover
            \/ no_devs \/ no_pubs \/ no_tags \/ no_series \/ no_adds
            \/ no_genres \/ no_platforms \/ no_stores

(* ------------------------------- state --------------------------------- *)

VARIABLES
    db,         \* the SQLite store: games (id |-> row) and the child tables
    boot,       \* how the store's tables were first created
    upstream,   \* full mode: the snapshot the provider holds for each item
    folders,    \* the directories under the asset root
    listed,     \* the items fetch_games.py had listed before the first launch
    mode,       \* "list" (IDs on the command line) or "full" (two passes)
    pc,         \* where the process is
    phase,      \* the loop of main that called enrich_one
    queue,      \* the IDs the current loop has still to visit
    gid,        \* the item enrich_one is working on, 0 outside a call
    snap,       \* the snapshot the provider serves during the current call
    result,     \* what the last enrich_one returned
    requested,  \* the endpoints requested so far by the current call
    prev,       \* the item and snapshot of the last call that returned
    ins_ok, ins_fail, en_ok, en_skip,   \* the tallies of main
    launches,   \* how many times the script has been started
    calls,      \* full mode: the IDs main passed to enrich_one since the launch
    probe       \* a function applied on its own: [fn, arg, done, out]

vars == <<db, boot, upstream, folders, listed, mode, pc, phase, queue, gid, snap, result,
          requested, prev, ins_ok, ins_fail, en_ok, en_skip, launches, calls, probe>>

tallies == <<ins_ok, ins_fail, en_ok, en_skip>>
environment == <<boot, upstream, folders, listed, mode, launches, probe>>

\* no function is applied on its own
NoProbe == [fn |-> "none", arg |-> <<>>, done |-> FALSE, out |-> <<>>]

NoSnap == [data |-> "none", plans |-> AllOk]
\* SELECT COUNT(*) of every child table
Counts(store) == [t \in TableNames |-> BagCardinality(store[t])]

NoPrev == [gid |-> 0, snap |-> NoSnap, result |-> FALSE, counts |-> Counts(EmptyDb)]

EnrichPcs == {"details", "lists", "genres", "stores", "links", "shots", "images",
              "movies", "suggest"}

\* the numeric directory names, and one directory that is not an ID
FolderNames == {[numeric |-> TRUE, id |-> i] : i \in Ids} \cup {[numeric |-> FALSE, id |-> 0]}

RECURSIVE SortedSeq(_)
SortedSeq(S) ==
    IF S = {} THEN <<>>
    ELSE LET m == CHOOSE x \in S : \A y \in S : x <= y
         IN <<m>> \o SortedSeq(S \ {m})

\* the sorted IDs of the directories whose name parses as an integer
FolderIds(dirs) == SortedSeq({f.id : f \in {x \in dirs : x.numeric}})

find_folder_ids == FolderIds(folders)

ids_in_db == DOMAIN db.games

(* ------------------------------ read API ------------------------------ *)

\* the tables of a store that db_prepare_BEFORE.py and ensure_schema have
\* prepared: neither creates developers, publishers, tags or suggestions
\* (db_prepare.py creates the first three, and nothing writes to them), and
\* game_developers, game_publishers and game_tags hold the name itself, not
\* an ID of such a table
StoreTables == TableNames \cup {"games"}

\* GET /games/{slug} of games_api.py, as far as the lists of names and the
\* suggestions go; a query that names a missing table raises
\* sqlite3.OperationalError, which safe_group and the try blocks turn into
\* an empty list
get_game(store, slug) ==
    LET hits == {g \in DOMAIN store.games : store.games[g].slug = slug}
        game_id == CHOOSE g \in hits : \A h \in hits : g <= h
        Names(link, vocab) ==
            IF vocab \in StoreTables
            THEN {v[2] : v \in {x \in BagToSet(store[vocab]) :
                                   \E l \in RowsFor(store[link], game_id) : l[2] = x[1]}}
            ELSE {}
        ranked == IF "suggestions" \in StoreTables
                  THEN FirstN(SortedSeq({r[2] : r \in {x \in BagToSet(store["suggestions"]) :
                                                         x[1] = game_id
                                                         /\ x[3] \in DOMAIN store.games}}), 24)
                  ELSE <<>>
    IN IF hits = {} THEN [status |-> 404]
       ELSE [status |-> 200, id |-> game_id,
             developers |-> Names("game_developers", "developers"),
             publishers |-> Names("game_publishers", "publishers"),
             tags |-> Names("game_tags", "tags"),
             suggestions |-> ranked]

\* the parts of the schema the read API treats as optional: the screenshots
\* table, the genre and the platform tables (vocabulary and link table), the
\* developers, publishers and tags tables, the store tables, the suggestions
\* table, and the metascore columns of games
OptionalParts ==
    {"screenshots", "genres", "platforms", "developers", "stores", "suggestions",
     "metascore"}

\* GET /games on a store whose schema lacks the parts `absent`: the CTEs and
\* joins of screenshots, genres and platforms are left out when table_exists
\* says so; the SELECT names games.metascore_number and games.metascore_color
\* in any case, and its sqlite3.OperationalError is answered with []
get_games(store, absent) ==
    LET Names(link, vocab, part) ==
            [g \in DOMAIN store.games |->
                IF part \in absent THEN {}
                ELSE {v[2] : v \in {x \in BagToSet(store[vocab]) :
                                       \E l \in RowsFor(store[link], g) : l[2] = x[1]}}]
    IN IF "metascore" \in absent THEN {}
       ELSE {[id |-> g, slug |-> store.games[g].slug,
              genres |-> Names("game_genres", "genres", "genres")[g],
              platforms |-> Names("game_platforms", "platforms", "platforms")[g]] :
                g \in DOMAIN store.games}

\* GET /games/{slug} on such a store: the base query names game_genres,
\* genres, game_platforms, platforms, screenshots and the metascore columns
\* outside any try block, so that its sqlite3.OperationalError ends the
\* request (status 500); the later queries are guarded
get_game_without(store, slug, absent) ==
    IF absent \cap {"screenshots", "genres", "platforms", "metascore"} # {}
    THEN [status |-> 500]
    ELSE get_game(store, slug)

(* ----------------------------- enrich_one ------------------------------ *)

\* the detail record enrich_one holds after its in-memory normalisation
CurDetails == NormalizeEmbedded(fetch_details(gid, snap).details)

\* the screenshots enrich_one fetched once and reuses
CurImages == fetch_all_screenshots(snap, MAX_IMAGES).images

Return(value) ==
    /\ result' = value
    /\ pc' = "returned"

\* an exception no handler catches: the process ends with a traceback
Crash ==
    /\ pc' = "crashed"
    /\ UNCHANGED result

\* fetch_details raised
DetailsRaise ==
    /\ pc = "details"
    /\ fetch_details(gid, snap).out = "raise"
    /\ requested' = requested \cup {"details"}
    /\ Crash
    /\ UNCHANGED <<prev, db, phase, queue, gid, snap, tallies, calls, environment>>

DetailsFailMutWrites ==
    /\ pc = "details"
    /\ fetch_details(gid, snap).out = "none"
    /\ requested' = requested \cup {"details"}
    /\ db' = [db EXCEPT !.games = Put(@, gid, NewGameRow(Null, Null, Null, NoInt))]
    /\ Return(FALSE)
    /\ UNCHANGED <<prev, phase, queue, gid, snap, tallies, calls, environment>>

DetailsFailMutCrawls ==
    /\ pc = "details"
    /\ fetch_details(gid, snap).out = "none"
    /\ requested' = requested \cup {"details", "series", "additions"}
    /\ Return(FALSE)
    /\ UNCHANGED <<prev, db, phase, queue, gid, snap, tallies, calls, environment>>

\* fetch_details returned None: return False
DetailsFail ==
    /\ pc = "details"
    /\ fetch_details(gid, snap).out = "none"
    /\ requested' = requested \cup {"details"}
    /\ Return(FALSE)
    /\ UNCHANGED <<prev, db, phase, queue, gid, snap, tallies, calls, environment>>

\* fetch_details returned the record: upsert_game_core and its commit
DetailsOk ==
    /\ pc = "details"
    /\ fetch_details(gid, snap).out = "json"
    /\ requested' = requested \cup {"details"}
    /\ db' = upsert_game_core(db, CurDetails)
    /\ pc' = "lists"
    /\ UNCHANGED <<phase, queue, gid, snap, result, prev, tallies, calls, environment>>

UpsertLists ==
    /\ pc = "lists"
    /\ db' = upsert_lists(db, gid, CurDetails)
    /\ pc' = "genres"
    /\ UNCHANGED <<phase, queue, gid, snap, result, requested, prev, tallies, calls, environment>>

UpsertGenresPlatforms ==
    /\ pc = "genres"
    /\ db' = upsert_genres_platforms(db, gid, CurDetails, boot)
    /\ pc' = "stores"
    /\ UNCHANGED <<phase, queue, gid, snap, result, requested, prev, tallies, calls, environment>>

UpsertStoreLinks ==
    /\ pc = "stores"
    /\ db' = upsert_store_links(db, gid, CurDetails)
    /\ pc' = "links"
    /\ UNCHANGED <<phase, queue, gid, snap, result, requested, prev, tallies, calls, environment>>

UpsertLinks ==
    /\ pc = "links"
    /\ db' = upsert_links(db, gid, snap, boot)
    /\ requested' = requested \cup {"series", "additions"}
    /\ pc' = "shots"
    /\ UNCHANGED <<phase, queue, gid, snap, result, prev, tallies, calls, environment>>

ShotRequests == {"shots1"} \cup
    (IF fetch_all_screenshots(snap, MAX_IMAGES).pages > 1 THEN {"shots2"} ELSE {})

\* fetch_all_screenshots raised
ScreenshotsRaise ==
    /\ pc = "shots"
    /\ fetch_all_screenshots(snap, MAX_IMAGES).raised
    /\ requested' = requested \cup ShotRequests
    /\ Crash
    /\ UNCHANGED <<prev, db, phase, queue, gid, snap, tallies, calls, environment>>

\* fetch_all_screenshots returned: cover_fallback_from_images and its commit
Screenshots ==
    /\ pc = "shots"
    /\ ~fetch_all_screenshots(snap, MAX_IMAGES).raised
    /\ requested' = requested \cup ShotRequests
    /\ db' = cover_fallback_from_images(db, gid, CurImages)
    /\ pc' = "images"
    /\ UNCHANGED <<phase, queue, gid, snap, result, prev, tallies, calls, environment>>

StoreMediaImages ==
    /\ pc = "images"
    /\ db' = store_media_images(db, gid, CurImages)
    /\ pc' = "movies"
    /\ UNCHANGED <<phase, queue, gid, snap, result, requested, prev, tallies, calls, environment>>

\* fetch_movies raised
MoviesRaise ==
    /\ pc = "movies"
    /\ fetch_movies(snap).raised
    /\ requested' = requested \cup {"movies"}
    /\ Crash
    /\ UNCHANGED <<prev, db, phase, queue, gid, snap, tallies, calls, environment>>

Movies ==
    /\ pc = "movies"
    /\ ~fetch_movies(snap).raised
    /\ requested' = requested \cup {"movies"}
    /\ db' = store_media_videos(db, gid, fetch_movies(snap).videos)
    /\ pc' = "suggest"
    /\ UNCHANGED <<phase, queue, gid, snap, result, prev, tallies, calls, environment>>

\* the try block around fetch_suggestions and store_suggestions, then return True
Suggestions ==
    /\ pc = "suggest"
    /\ requested' = requested \cup {"suggested"}
    /\ db' = IF fetch_suggestions(snap, SUGGEST_LIMIT).raised THEN db
             ELSE store_suggestions(db, gid, fetch_suggestions(snap, SUGGEST_LIMIT).sugg)
    /\ Return(TRUE)
    /\ UNCHANGED <<prev, phase, queue, gid, snap, tallies, calls, environment>>

\* enrich_one is entered for item g while the provider serves snapshot s
Call(g, s) ==
    /\ gid' = g
    /\ snap' = s
    /\ requested' = {}
    /\ pc' = "details"

(* ----------------- enrich_one and main as functions ------------------- *)

\* enrich_one from entry to exit on one store: [out, db] with out "true",
\* "false" or "raise" and db the store as committed when the call ended
enrich_one(store, g, s, bt) ==
    LET d == fetch_details(g, s)
        details == NormalizeEmbedded(d.details)
        d1 == upsert_game_core(store, details)
        d2 == upsert_lists(d1, g, details)
        d3 == upsert_genres_platforms(d2, g, details, bt)
        d4 == upsert_store_links(d3, g, details)
        d5 == upsert_links(d4, g, s, bt)
        shots == fetch_all_screenshots(s, MAX_IMAGES)
        d6 == cover_fallback_from_images(d5, g, shots.images)
        d7 == store_media_images(d6, g, shots.images)
        movies == fetch_movies(s)
        d8 == store_media_videos(d7, g, movies.videos)
        sugg == fetch_suggestions(s, SUGGEST_LIMIT)
        d9 == IF sugg.raised THEN d8 ELSE store_suggestions(d8, g, sugg.sugg)
    IN IF d.out = "raise" THEN [out |-> "raise", db |-> store]
       ELSE IF d.out = "none" THEN [out |-> "false", db |-> store]
       ELSE IF shots.raised THEN [out |-> "raise", db |-> d5]
       ELSE IF movies.raised THEN [out |-> "raise", db |-> d7]
       ELSE [out |-> "true", db |-> d9]

\* one loop of main over ids; the second loop asks needs_enrich first:
\* [crashed, db]
RECURSIVE RunPass(_, _, _, _, _)
RunPass(store, ids, ups, bt, sweep) ==
    IF ids = <<>> THEN [crashed |-> FALSE, db |-> store]
    ELSE IF sweep /\ ~needs_enrich(store, Head(ids))
    THEN RunPass(store, Tail(ids), ups, bt, sweep)
    ELSE LET r == enrich_one(store, Head(ids), ups[Head(ids)], bt)
         IN IF r.out = "raise" THEN [crashed |-> TRUE, db |-> r.db]
            ELSE RunPass(r.db, Tail(ids), ups, bt, sweep)

\* an uninterrupted full run of main on a store: [crashed, db]
main_full(store, ups, dirs, bt) ==
    LET Missing(g) == g \notin DOMAIN store.games
        p1 == RunPass(store, SelectSeq(FolderIds(dirs), Missing), ups, bt, FALSE)
    IN IF p1.crashed THEN p1
       ELSE RunPass(p1.db, SortedSeq(DOMAIN p1.db.games), ups, bt, TRUE)

(* --------------------------- main, list mode --------------------------- *)

\* after the call: locals of the loop body are dropped
EndOfCall ==
    /\ gid' = 0
    /\ snap' = NoSnap
    /\ requested' = {}

\* python fix_orphans_and_enrich.py <ids>: ensure_schema, then the ID loop
MainList ==
    /\ pc = "start" /\ mode = "list"
    /\ \E ids \in UNION {[1..n -> Ids] : n \in 1..MaxArgs} : queue' = ids
    /\ pc' = "list_loop"
    /\ UNCHANGED <<db, phase, gid, snap, result, requested, prev, tallies, calls, environment>>

\* no token of the command line is numeric: "No numeric IDs provided."
MainListNone ==
    /\ pc = "start" /\ mode = "list"
    /\ pc' = "exited"
    /\ UNCHANGED <<db, phase, queue, gid, snap, result, requested, prev, tallies, calls, environment>>

\* for gid in ids: enrich_one(conn, gid), the provider holding any snapshot
ListNext ==
    /\ pc = "list_loop" /\ queue # <<>>
    /\ \E s \in Snapshots : Call(Head(queue), s)
    /\ queue' = Tail(queue)
    /\ UNCHANGED <<db, phase, result, prev, tallies, calls, environment>>

\* the one-line outcome of the item, then the next ID
ListReport ==
    /\ pc = "returned" /\ phase = "list"
    /\ EndOfCall
    /\ pc' = "list_loop"
    /\ UNCHANGED <<db, phase, queue, result, prev, tallies, calls, environment>>

\* for gid in ids: enrich_one(conn, gid), the provider holding any record
ListNextRecords ==
    /\ pc = "list_loop" /\ queue # <<>>
    /\ \E s \in RecordSnapshots : Call(Head(queue), s)
    /\ queue' = Tail(queue)
    /\ UNCHANGED <<db, phase, result, prev, tallies, calls, environment>>

ListExit ==
    /\ pc = "list_loop" /\ queue = <<>>
    /\ pc' = "exited"
    /\ UNCHANGED <<db, phase, queue, gid, snap, result, requested, prev, tallies, calls, environment>>

(* ------------- list mode with the same ID given twice ----------------- *)

\* a command line that ends with the same ID twice
MainListTwice ==
    /\ pc = "start" /\ mode = "list"
    /\ \E ids \in {<<g, g>> : g \in Ids} \cup {<<h, g, g>> : h \in Ids, g \in Ids} :
          queue' = ids
    /\ pc' = "list_loop"
    /\ UNCHANGED <<db, phase, gid, snap, result, requested, prev, tallies, calls, environment>>

\* the provider holds any snapshot, but does not change between the last
\* two calls
ListNextTwice ==
    /\ pc = "list_loop" /\ queue # <<>>
    /\ \E s \in Snapshots :
          /\ Len(queue) = 1 => s = prev.snap
          /\ Call(Head(queue), s)
    /\ queue' = Tail(queue)
    /\ UNCHANGED <<db, phase, result, prev, tallies, calls, environment>>

\* the outcome line; the call and the row counts it left are remembered
ListReportTwice ==
    /\ pc = "returned" /\ phase = "list"
    /\ prev' = [gid |-> gid, snap |-> snap, result |-> result, counts |-> Counts(db)]
    /\ EndOfCall
    /\ pc' = "list_loop"
    /\ UNCHANGED <<db, phase, queue, result, tallies, calls, environment>>

(* --------------------------- main, full mode --------------------------- *)

\* to_insert = [gid for gid in folder_ids if gid not in db_ids]
ToInsertMutAllFolders == find_folder_ids

to_insert ==
    LET Missing(g) == g \notin ids_in_db
    IN SelectSeq(find_folder_ids, Missing)

MainFull ==
    /\ pc = "start" /\ mode = "full"
    /\ queue' = to_insert
    /\ ins_ok' = 0 /\ ins_fail' = 0
    /\ phase' = "pass1"
    /\ pc' = "pass1_loop"
    /\ UNCHANGED <<db, gid, snap, result, requested, prev, en_ok, en_skip, calls, environment>>

\* for gid in to_insert: ok = enrich_one(conn, gid)
Pass1Next ==
    /\ pc = "pass1_loop" /\ queue # <<>>
    /\ Call(Head(queue), upstream[Head(queue)])
    /\ calls' = Append(calls, Head(queue))
    /\ queue' = Tail(queue)
    /\ UNCHANGED <<db, phase, result, prev, tallies, environment>>

\* the first-pass tally counting every call as a success
Pass1TallyMutAlwaysOk ==
    /\ pc = "returned" /\ phase = "pass1"
    /\ ins_ok' = ins_ok + 1
    /\ ins_fail' = ins_fail
    /\ EndOfCall
    /\ pc' = "pass1_loop"
    /\ UNCHANGED <<db, phase, queue, result, prev, en_ok, en_skip, calls, environment>>

Pass1Tally ==
    /\ pc = "returned" /\ phase = "pass1"
    /\ ins_ok' = IF result THEN ins_ok + 1 ELSE ins_ok
    /\ ins_fail' = IF result THEN ins_fail ELSE ins_fail + 1
    /\ EndOfCall
    /\ pc' = "pass1_loop"
    /\ UNCHANGED <<db, phase, queue, result, prev, en_ok, en_skip, calls, environment>>

\* SELECT id FROM games ORDER BY id ASC
StartSweep ==
    /\ pc = "pass1_loop" /\ queue = <<>>
    /\ queue' = SortedSeq(DOMAIN db.games)
    /\ en_ok' = 0 /\ en_skip' = 0
    /\ phase' = "sweep"
    /\ pc' = "sweep_loop"
    /\ UNCHANGED <<db, gid, snap, result, requested, prev, ins_ok, ins_fail, calls, environment>>

SweepEnrichMutAlways ==
    /\ pc = "sweep_loop" /\ queue # <<>>
    /\ Call(Head(queue), upstream[Head(queue)])
    /\ calls' = Append(calls, Head(queue))
    /\ queue' = Tail(queue)
    /\ UNCHANGED <<db, phase, result, prev, tallies, environment>>

\* if needs_enrich(conn, gid): enrich_one(conn, gid)
SweepEnrich ==
    /\ pc = "sweep_loop" /\ queue # <<>>
    /\ needs_enrich(db, Head(queue))
    /\ Call(Head(queue), upstream[Head(queue)])
    /\ calls' = Append(calls, Head(queue))
    /\ queue' = Tail(queue)
    /\ UNCHANGED <<db, phase, result, prev, tallies, environment>>

SweepSkip ==
    /\ pc = "sweep_loop" /\ queue # <<>>
    /\ ~needs_enrich(db, Head(queue))
    /\ queue' = Tail(queue)
    /\ UNCHANGED <<db, phase, pc, gid, snap, result, requested, prev, tallies, calls, environment>>

SweepTally ==
    /\ pc = "returned" /\ phase = "sweep"
    /\ en_ok' = IF result THEN en_ok + 1 ELSE en_ok
    /\ en_skip' = IF result THEN en_skip ELSE en_skip + 1
    /\ EndOfCall
    /\ pc' = "sweep_loop"
    /\ UNCHANGED <<db, phase, queue, result, prev, ins_ok, ins_fail, calls, environment>>

\* conn.close() and the summary lines
Summary ==
    /\ pc = "sweep_loop" /\ queue = <<>>
    /\ pc' = "summary"
    /\ UNCHANGED <<db, phase, queue, gid, snap, result, requested, prev, tallies, calls, environment>>

\* the process is killed from outside: what was not committed is lost, and
\* every step above ends with its commit
Kill ==
    /\ mode = "full"
    /\ pc \in EnrichPcs \cup {"pass1_loop", "sweep_loop", "returned"}
    /\ pc' = "killed"
    /\ queue' = <<>>
    /\ EndOfCall
    /\ UNCHANGED <<db, phase, result, prev, tallies, calls, environment>>

\* the script is started again on the same store
Relaunch ==
    /\ mode = "full" /\ pc = "killed"
    /\ launches < MaxLaunches
    /\ launches' = launches + 1
    /\ pc' = "start"
    /\ phase' = "pass1"
    /\ queue' = <<>>
    /\ EndOfCall
    /\ result' = FALSE
    /\ prev' = NoPrev
    /\ ins_ok' = 0 /\ ins_fail' = 0 /\ en_ok' = 0 /\ en_skip' = 0
    /\ calls' = <<>>
    /\ UNCHANGED <<db, boot, upstream, folders, listed, mode, probe>>

\* a full run has printed its summary and the script is run again on the
\* same store
Rerun ==
    /\ mode = "full" /\ pc = "summary"
    /\ launches < MaxLaunches
    /\ launches' = launches + 1
    /\ pc' = "start"
    /\ phase' = "pass1"
    /\ queue' = <<>>
    /\ EndOfCall
    /\ result' = FALSE
    /\ prev' = NoPrev
    /\ ins_ok' = 0 /\ ins_fail' = 0 /\ en_ok' = 0 /\ en_skip' = 0
    /\ calls' = <<>>
    /\ UNCHANGED <<db, boot, upstream, folders, listed, mode, probe>>

(* --------------------------- specifications ---------------------------- *)

\* the snapshots a full run is checked against
RunSnapshots ==
    {[data |-> "a", plans |-> AllOk], [data |-> "sparse", plans |-> AllOk],
     [data |-> "a", plans |-> OneBad("details", NotFound)],
     [data |-> "a", plans |-> OneBad("details", Exhausted)],
     [data |-> "a", plans |-> OneBad("details", Forbidden)],
     [data |-> "a", plans |-> OneBad("shots1", Dropped)],
     [data |-> "a", plans |-> OneBad("movies", Forbidden)]}

\* the row upsert_game of fetch_games.py leaves for a listed game
ListedRow(g) ==
    [description |-> Empty, website |-> Null, age_rating |-> Null, cover_image |-> Null,
     released |-> Details(g, "a").released, rating |-> Details(g, "a").rating,
     slug |-> Details(g, "a").slug, name |-> Details(g, "a").name,
     metascore_number |-> NoInt, metascore_color |-> Null]

Preloaded(S) == [EmptyDb EXCEPT !.games = [g \in S |-> ListedRow(g)]]

InitCommon ==
    /\ boot \in Bootstraps
    /\ pc = "start"
    /\ queue = <<>>
    /\ gid = 0
    /\ snap = NoSnap
    /\ result = FALSE
    /\ requested = {}
    /\ prev = NoPrev
    /\ ins_ok = 0 /\ ins_fail = 0 /\ en_ok = 0 /\ en_skip = 0
    /\ launches = 1
    /\ calls = <<>>
    /\ probe = NoProbe

\* list mode on a store without items
Init ==
    /\ InitCommon
    /\ db = EmptyDb
    /\ listed = {}
    /\ upstream = [g \in Ids |-> NoSnap]
    /\ folders = {}
    /\ mode = "list"
    /\ phase = "list"

\* full mode: some items were listed by fetch_games.py, some have folders
InitRun ==
    /\ InitCommon
    /\ listed \in SUBSET Ids
    /\ db = Preloaded(listed)
    /\ upstream \in [Ids -> RunSnapshots]
    /\ \E S \in SUBSET Ids :
          folders = {f \in FolderNames : f.numeric => f.id \in S}
    /\ mode = "full"
    /\ phase = "pass1"

Next ==
    \/ MainList \/ MainListNone \/ ListNext \/ ListReport \/ ListExit
    \/ DetailsRaise \/ DetailsFail \/ DetailsOk
    \/ UpsertLists \/ UpsertGenresPlatforms \/ UpsertStoreLinks \/ UpsertLinks
    \/ ScreenshotsRaise \/ Screenshots \/ StoreMediaImages
    \/ MoviesRaise \/ Movies \/ Suggestions

NextRun ==
    \/ MainFull \/ Pass1Next \/ Pass1Tally \/ StartSweep
    \/ SweepEnrich \/ SweepSkip \/ SweepTally \/ Summary
    \/ DetailsRaise \/ DetailsFail \/ DetailsOk
    \/ UpsertLists \/ UpsertGenresPlatforms \/ UpsertStoreLinks \/ UpsertLinks
    \/ ScreenshotsRaise \/ Screenshots \/ StoreMediaImages
    \/ MoviesRaise \/ Movies \/ Suggestions

NextKill ==
    \/ MainFull \/ Pass1Next \/ Pass1Tally \/ StartSweep
    \/ SweepEnrich \/ SweepSkip \/ SweepTally \/ Summary
    \/ DetailsRaise \/ DetailsFail \/ DetailsOk
    \/ UpsertLists \/ UpsertGenresPlatforms \/ UpsertStoreLinks \/ UpsertLinks
    \/ ScreenshotsRaise \/ Screenshots \/ StoreMediaImages
    \/ MoviesRaise \/ Movies \/ Suggestions
    \/ Kill \/ Relaunch

NextTwice ==
    \/ MainListTwice \/ ListNextTwice \/ ListReportTwice \/ ListExit
    \/ DetailsRaise \/ DetailsFail \/ DetailsOk
    \/ UpsertLists \/ UpsertGenresPlatforms \/ UpsertStoreLinks \/ UpsertLinks
    \/ ScreenshotsRaise \/ Screenshots \/ StoreMediaImages
    \/ MoviesRaise \/ Movies \/ Suggestions

\* list mode: any IDs, the provider free to change between calls
Spec == Init /\ [][Next]_vars

\* one full run against a fixed provider
SpecRun == InitRun /\ [][NextRun]_vars

\* full runs against a fixed provider, killed and started again
SpecKill == InitRun /\ [][NextKill]_vars

NextRecords ==
    \/ MainList \/ ListNextRecords \/ ListReport \/ ListExit
    \/ DetailsRaise \/ DetailsFail \/ DetailsOk
    \/ UpsertLists \/ UpsertGenresPlatforms \/ UpsertStoreLinks \/ UpsertLinks
    \/ ScreenshotsRaise \/ Screenshots \/ StoreMediaImages
    \/ MoviesRaise \/ Movies \/ Suggestions

\* list mode over detail records with empty fields and out-of-range scores
SpecRecords == Init /\ [][NextRecords]_vars

\* list mode, the last ID repeated against an unchanged provider
SpecTwice == Init /\ [][NextTwice]_vars

\* full runs one after the other against a fixed provider whose every fetch
\* succeeds
InitRepeat ==
    /\ InitRun
    /\ \A g \in Ids : upstream[g].plans = AllOk

NextRepeat ==
    \/ MainFull \/ Pass1Next \/ Pass1Tally \/ StartSweep
    \/ SweepEnrich \/ SweepSkip \/ SweepTally \/ Summary
    \/ DetailsOk
    \/ UpsertLists \/ UpsertGenresPlatforms \/ UpsertStoreLinks \/ UpsertLinks
    \/ Screenshots \/ StoreMediaImages
    \/ Movies \/ Suggestions
    \/ Rerun

\* the script is one sequential process: control does not rest before a
\* statement that can execute. Outside the sweep loop every step of
\* NextRepeat moves to another position (the summary is left as long as runs
\* remain); a step of the sweep loop takes the head of the queue, or leaves
\* for the summary when the queue is empty
Sequential ==
    /\ WF_pc(/\ pc # "sweep_loop"
             /\ pc = "summary" => launches < MaxLaunches
             /\ pc' \in ({"start", "pass1_loop", "sweep_loop", "returned", "summary"}
                          \cup EnrichPcs) \ {pc})
    /\ WF_<<pc, queue>>(/\ pc = "sweep_loop"
                        /\ IF queue = <<>> THEN pc' = "summary" /\ queue' = queue
                           ELSE pc' \in {"sweep_loop", "details"} /\ queue' = Tail(queue))

SpecRepeat == InitRepeat /\ [][NextRepeat]_vars /\ Sequential

(* -------------------- functions applied on their own ------------------ *)

\* a screenshots listing of n pages with size image entries each, every
\* page but the last carrying a next indicator, every request answered
UniformPages(n, size) ==
    [p \in 1..n |->
        [out |-> "json",
         results |-> [i \in 1..size |-> Url(<<"games", "shot.jpg">>)],
         next |-> p < n]]

\* fetch_all_screenshots(game_id, max_images = cap) against the listing
ApplyFetchAllScreenshots ==
    /\ probe.fn = "fetch_all_screenshots" /\ ~probe.done
    /\ probe' = [probe EXCEPT
                    !.done = TRUE,
                    !.out = CrawlLoop(UniformPages(probe.arg.n, probe.arg.size), 1, <<>>,
                                      probe.arg.cap)]
    /\ UNCHANGED <<db, boot, upstream, folders, listed, mode, pc, phase, queue, gid, snap,
                   result, requested, prev, tallies, launches, calls>>

\* fetch_all_screenshots(game_id, max_images = cap) against a listing that
\* opens with `blank` pages without an image, each carrying a next indicator
\* (entries without an image on the odd pages, no entry on the even ones),
\* and ends with a page of one image, a failed fetch or a raising one
ApplyFetchAllScreenshotsBlank ==
    /\ probe.fn = "fetch_all_screenshots blank" /\ ~probe.done
    /\ LET listing ==
               [p \in 1..probe.arg.blank |->
                   [out |-> "json",
                    results |-> IF p % 2 = 1 THEN <<Null>> ELSE <<>>,
                    next |-> TRUE]]
               \o <<[out |-> probe.arg.last,
                     results |-> <<Url(<<"games", "shot.jpg">>)>>,
                     next |-> FALSE]>>
       IN probe' = [probe EXCEPT
                       !.done = TRUE,
                       !.out = CrawlLoop(listing, 1, <<>>, probe.arg.cap)]
    /\ UNCHANGED <<db, boot, upstream, folders, listed, mode, pc, phase, queue, gid, snap,
                   result, requested, prev, tallies, launches, calls>>

ApplyMetascoreColor ==
    /\ probe.fn = "metascore_color" /\ ~probe.done
    /\ probe' = [probe EXCEPT !.done = TRUE, !.out = metascore_color(probe.arg)]
    /\ UNCHANGED <<db, boot, upstream, folders, listed, mode, pc, phase, queue, gid, snap,
                   result, requested, prev, tallies, launches, calls>>

\* answers to one request: 200 with a body that parses or does not, other
\* statuses of every class, and a request that raises
ProbeAnswers ==
    {Resp(200), BadBody, Resp(204), Resp(403), Resp(404), Resp(429),
     Resp(500), Resp(501), Resp(503), NetError}

ApplyRawgGet ==
    /\ probe.fn = "_rawg_get" /\ ~probe.done
    /\ probe' = [probe EXCEPT !.done = TRUE, !.out = _rawg_get(probe.arg)]
    /\ UNCHANGED <<db, boot, upstream, folders, listed, mode, pc, phase, queue, gid, snap,
                   result, requested, prev, tallies, launches, calls>>

\* n normalized image URLs a crawl returned, told apart by the pass
PassImages(n, pass) == [i \in 1..n |-> Url(<<"games", pass, ToString(i)>>)]

\* the store before the first pass: the legacy table holds `had` rows of item 1
LegacyStart(had) ==
    [EmptyDb EXCEPT !.screenshots =
        InsertAll(@, [i \in 1..had |-> <<1, Url(<<"games", "old", ToString(i)>>)>>])]

\* store_media_images(conn, 1, images) of the first and of the second pass
ApplyStoreMediaImages ==
    /\ probe.fn = "store_media_images" /\ ~probe.done
    /\ LET first == store_media_images(LegacyStart(probe.arg.had), 1,
                                       PassImages(probe.arg.n, "first"))
           second == store_media_images(first, 1, PassImages(probe.arg.m, "second"))
       IN probe' = [probe EXCEPT
                       !.done = TRUE,
                       !.out = [start |-> LegacyStart(probe.arg.had).screenshots,
                                first |-> first.screenshots,
                                second |-> second.screenshots]]
    /\ UNCHANGED <<db, boot, upstream, folders, listed, mode, pc, phase, queue, gid, snap,
                   result, requested, prev, tallies, launches, calls>>

\* normalize_rawg_image(url) of fix_orphans_and_enrich.py, and the same
\* function applied to its result
ApplyNormalize ==
    /\ probe.fn = "normalize_rawg_image" /\ ~probe.done
    /\ probe' = [probe EXCEPT
                    !.done = TRUE,
                    !.out = [once |-> normalize_rawg_image(probe.arg),
                             twice |-> normalize_rawg_image(
                                           normalize_rawg_image(probe.arg))]]
    /\ UNCHANGED <<db, boot, upstream, folders, listed, mode, pc, phase, queue, gid, snap,
                   result, requested, prev, tallies, launches, calls>>

\* normalize_rawg_image(url) of fetch_games.py, and the same function applied
\* to its result
ApplyNormalizeFetchGames ==
    /\ probe.fn = "fetch_games.normalize_rawg_image" /\ ~probe.done
    /\ probe' = [probe EXCEPT
                    !.done = TRUE,
                    !.out = [once |-> fetch_games_normalize_rawg_image(probe.arg),
                             twice |-> fetch_games_normalize_rawg_image(
                                           fetch_games_normalize_rawg_image(probe.arg))]]
    /\ UNCHANGED <<db, boot, upstream, folders, listed, mode, pc, phase, queue, gid, snap,
                   result, requested, prev, tallies, launches, calls>>

\* enrich_one for each ID of a list in turn, on a provider that holds the
\* record up[g] for item g and answers every request
RECURSIVE EnrichAll(_, _, _, _)
EnrichAll(store, ids, up, bt) ==
    IF ids = <<>> THEN store
    ELSE EnrichAll(enrich_one(store, Head(ids), [data |-> up[Head(ids)], plans |-> AllOk],
                              bt).db,
                   Tail(ids), up, bt)

\* list mode with the IDs `1 2`, `2 1` and `1 2 2 1` on an empty store
ApplyEnrichOrders ==
    /\ probe.fn = "enrich_one order" /\ ~probe.done
    /\ LET Run(ids) ==
               LET store == EnrichAll(EmptyDb, ids, probe.arg.up, probe.arg.boot)
               IN [t \in {"genres", "platforms", "game_genres", "game_platforms"} |->
                      store[t]]
       IN probe' = [probe EXCEPT
                       !.done = TRUE,
                       !.out = [fwd |-> Run(<<1, 2>>), rev |-> Run(<<2, 1>>),
                                more |-> Run(<<1, 2, 2, 1>>)]]
    /\ UNCHANGED <<db, boot, upstream, folders, listed, mode, pc, phase, queue, gid, snap,
                   result, requested, prev, tallies, launches, calls>>

\* both endpoints on the store of two enriched items, its schema lacking any
\* subset of the optional parts
ApplyReadApi ==
    /\ probe.fn = "games_api" /\ ~probe.done
    /\ \E store \in {EnrichAll(EmptyDb, <<1, 2>>, [g \in 1..2 |-> "a"], probe.arg.boot)} :
          probe' = [probe EXCEPT
                       !.done = TRUE,
                       !.out = [ids |-> DOMAIN store.games,
                                list |-> get_games(store, probe.arg.absent),
                                detail |-> [g \in DOMAIN store.games |->
                                               get_game_without(store, store.games[g].slug,
                                                                probe.arg.absent)]]]
    /\ UNCHANGED <<db, boot, upstream, folders, listed, mode, pc, phase, queue, gid, snap,
                   result, requested, prev, tallies, launches, calls>>

\* http_get against a plan of answers
ApplyHttpGet ==
    /\ probe.fn = "http_get" /\ ~probe.done
    /\ probe' = [probe EXCEPT !.done = TRUE, !.out = http_get(probe.arg)]
    /\ UNCHANGED <<db, boot, upstream, folders, listed, mode, pc, phase, queue, gid, snap,
                   result, requested, prev, tallies, launches, calls>>

\* the inputs the functions are applied to on their own
PureInputs ==
    {[fn |-> "fetch_all_screenshots", arg |-> [n |-> n, size |-> z, cap |-> c],
      done |-> FALSE, out |-> <<>>] :
        n \in 1..MaxPages, z \in 1..MaxPageSize, c \in 0..MaxCap}
    \* null, every score of 0..100 and integers on both sides of that range
    \cup {[fn |-> "metascore_color", arg |-> a, done |-> FALSE, out |-> <<>>] :
             a \in {NoInt} \cup {<<n>> : n \in -3..103}}
    \cup {[fn |-> f, arg |-> plan, done |-> FALSE, out |-> <<>>] :
             f \in {"_rawg_get", "http_get"},
             plan \in UNION {[1..n -> ProbeAnswers] : n \in 1..MaxPlanLen}}
    \* two passes over item 1 that fetched n and then m images, the counts
    \* lying on both sides of the legacy limit
    \cup {[fn |-> "store_media_images", arg |-> [had |-> h, n |-> n, m |-> m],
           done |-> FALSE, out |-> <<>>] :
             h \in 0..1,
             n \in {0, 1} \cup ((LEGACY_LIMIT - 1)..(LEGACY_LIMIT + 2)),
             m \in {0, 1} \cup ((LEGACY_LIMIT - 1)..(LEGACY_LIMIT + 2))}
    \* URLs: a host and up to MaxSegs path segments, and the two empty inputs
    \cup {[fn |-> f, arg |-> u, done |-> FALSE, out |-> <<>>] :
             f \in {"normalize_rawg_image", "fetch_games.normalize_rawg_image"},
             u \in {Null, Empty} \cup
                   {<<"https:", "", h>> \o path :
                       h \in {"media.rawg.io", "cdn.example"},
                       path \in UNION {[1..n -> {"media", "crop", "resize", "games", "a.jpg"}] :
                                          n \in 0..MaxSegs}}}
    \* two items with any two records, on a store of either bootstrap
    \cup {[fn |-> "enrich_one order", arg |-> [up |-> u, boot |-> b], done |-> FALSE, out |-> <<>>] :
             u \in [1..2 -> {"a", "b", "sparse", "notags"}], b \in Bootstraps}
    \* listings that open with pages without an image
    \cup {[fn |-> "fetch_all_screenshots blank", arg |-> [blank |-> b, cap |-> c, last |-> l],
           done |-> FALSE, out |-> <<>>] :
             b \in 0..MaxPages, c \in 1..MaxCap, l \in {"json", "none", "raise"}}
    \* a schema without any subset of the optional parts
    \cup {[fn |-> "games_api", arg |-> [absent |-> a, boot |-> b], done |-> FALSE, out |-> <<>>] :
             a \in SUBSET OptionalParts, b \in Bootstraps}

InitPure ==
    /\ boot = "games_only"
    /\ pc = "start"
    /\ queue = <<>>
    /\ gid = 0
    /\ snap = NoSnap
    /\ result = FALSE
    /\ requested = {}
    /\ prev = NoPrev
    /\ ins_ok = 0 /\ ins_fail = 0 /\ en_ok = 0 /\ en_skip = 0
    /\ launches = 1
    /\ calls = <<>>
    /\ db = EmptyDb
    /\ listed = {}
    /\ upstream = [g \in Ids |-> NoSnap]
    /\ folders = {}
    /\ mode = "pure"
    /\ phase = "list"
    /\ probe \in PureInputs

NextPure ==
    \/ ApplyFetchAllScreenshots
    \/ ApplyFetchAllScreenshotsBlank
    \/ ApplyMetascoreColor
    \/ ApplyRawgGet
    \/ ApplyHttpGet
    \/ ApplyStoreMediaImages
    \/ ApplyNormalize
    \/ ApplyNormalizeFetchGames
    \/ ApplyEnrichOrders
    \/ ApplyReadApi

\* the pure functions of the script, each applied once to one input
SpecPure == InitPure /\ [][NextPure]_vars

(* ------------------------ model self-consistency ----------------------- *)

\* the step actions of a full run compose to main_full
RunIsMainFull ==
    pc \in {"summary", "crashed"} =>
        LET u == main_full(Preloaded(listed), upstream, folders, boot)
        IN u.db = db /\ u.crashed = (pc = "crashed")

(* ------------------------------ properties ----------------------------- *)

\* the scalar columns of games that upsert_game_core updates from upstream
ScalarFields ==
    {"description", "website", "age_rating", "cover_image", "released", "rating",
     "metascore_number", "metascore_color"}

\* the column of the row holds NULL or, for a text column, the empty string
BlankField(row, f) ==
    IF f \in {"rating", "metascore_number"} THEN row[f] = NoInt ELSE Blank(row[f])

C2_SecondRunSameCounts ==
    (/\ pc = "returned" /\ prev.gid = gid /\ prev.snap = snap
     /\ boot = "games_only")
        => Counts(db) = prev.counts

\* the second of two successful calls on a full snapshot has returned and
\* links, media, legacy screenshots and suggestions are stored
C2_RanTwice ==
    /\ pc = "returned" /\ prev.gid = gid /\ prev.snap = snap /\ boot = "games_only"
    /\ result /\ prev.result /\ snap.data = "a"
    /\ ~NoRowFor(db.game_additions_links, gid) /\ ~NoRowFor(db.media, gid)
    /\ ~NoRowFor(db.screenshots, gid) /\ ~NoRowFor(db.game_suggestions, gid)

\* no two rows of the table agree on the columns K
UniqueOn(table, K) ==
    \A r \in BagToSet(table) :
        /\ table[r] = 1
        /\ \A q \in BagToSet(table) : (\A c \in K : r[c] = q[c]) => r = q

\* C3 (natural-key uniqueness): no child table holds two rows with the same
\* natural key: media (item, kind, url); developers, publishers, tags
\* (item, name); series and additions links (item, name, url); genre and
\* platform links (item, vocabulary id); store links (item, store)
C3_NaturalKeys ==
    /\ UniqueOn(db.media, {1, 2, 3})
    /\ UniqueOn(db.game_developers, {1, 2})
    /\ UniqueOn(db.game_publishers, {1, 2})
    /\ UniqueOn(db.game_tags, {1, 2})
    /\ UniqueOn(db.game_series_links, {1, 2, 3})
    /\ UniqueOn(db.game_additions_links, {1, 2, 3})
    /\ UniqueOn(db.game_genres, {1, 2})
    /\ UniqueOn(db.game_platforms, {1, 2})
    /\ UniqueOn(db.game_stores, {1, 2})

\* C4 (kill and relaunch): when a full run that followed a kill reaches its
\* summary, the store equals the store an uninterrupted full run on the
\* initial store and the same upstream would have left
C4_KillSafe ==
    LET u == main_full(Preloaded(listed), upstream, folders, boot)
    IN (pc = "summary" /\ launches > 1 /\ ~u.crashed) => db = u.db

\* the sub-resource steps after the detail record, one request each
SubSteps == {"series", "additions", "shots1", "movies", "suggested"}

\* C5 (isolation): when the detail fetch succeeded and one sub-resource
\* fetch ends in a hard failure (403, or a network error), enrich_one does
\* not end with an exception; it issues the remaining sub-resource requests
\* and returns True
C5_HardFailureIsolated ==
    (/\ gid # 0 /\ fetch_details(gid, snap).out = "json"
     /\ \E e \in SubEndpoints : snap.plans[e] \in HardPlans)
        => /\ pc # "crashed"
           /\ pc = "returned" => (result /\ SubSteps \subseteq requested)

\* rows of the sub-resource are stored for the item
Stored(e) ==
    IF e = "series" THEN ~NoRowFor(db.game_series_links, gid)
    ELSE IF e = "additions" THEN ~NoRowFor(db.game_additions_links, gid)
    ELSE IF e = "shots1"
    THEN \E r \in RowsFor(db.media, gid) : r[2] = "image"
    ELSE IF e = "movies"
    THEN \E r \in RowsFor(db.media, gid) : r[2] = "video"
    ELSE ~NoRowFor(db.game_suggestions, gid)

\* C6 (sub-resource 404): when the detail fetch succeeded and exactly one
\* sub-resource call answers 404, enrich_one does not end with an exception,
\* and when it has returned it returned True, every other sub-resource was
\* requested and its rows are stored
C6_NotFoundTolerated ==
    \A e \in SubEndpoints :
        (gid # 0 /\ snap.data = "a" /\ snap.plans = OneBad(e, NotFound))
            => /\ pc # "crashed"
               /\ pc = "returned" =>
                     /\ result
                     /\ \A o \in SubSteps \ {e} : o \in requested /\ Stored(o)

\* enrich_one returned True although the movies call answered 404; the
\* screenshots and the suggestions of the item are stored
C6_MoviesNotFound ==
    /\ pc = "returned" /\ result
    /\ snap.data = "a" /\ snap.plans = OneBad("movies", NotFound)
    /\ Stored("shots1") /\ Stored("suggested") /\ ~Stored("movies")

\* C7 (failed detail fetch in a full run): a detail fetch that answers 404
\* or exhausts its retries makes enrich_one return False with the store
\* unchanged; the controller then adds one to the failure counter of the
\* pass, leaves the store and the IDs still to process unchanged and goes
\* back to the loop of the pass
C7_FailedIdSkipped ==
    [][/\ (/\ pc = "details"
           /\ snap.plans["details"] \in {NotFound, Exhausted})
          => (db' = db /\ pc' = "returned" /\ result' = FALSE)
       /\ (pc = "returned" /\ ~result)
          => /\ db' = db /\ queue' = queue
             /\ phase = "pass1" =>
                   (pc' = "pass1_loop" /\ ins_fail' = ins_fail + 1 /\ ins_ok' = ins_ok)
             /\ phase = "sweep" =>
                   (pc' = "sweep_loop" /\ en_skip' = en_skip + 1 /\ en_ok' = en_ok)]_vars

\* a full run whose first ID failed on its detail fetch went on to enrich
\* the second ID and reached the summary
C7_FailedThenSummary ==
    /\ pc = "summary" /\ ins_fail = 1 /\ ins_ok = 1
    /\ upstream[1].plans["details"] \in {NotFound, Exhausted}
    /\ 1 \notin DOMAIN db.games /\ 2 \in DOMAIN db.games

\* C8 (no process termination): no upstream response sequence ends the
\* process with an uncaught exception
C8_NeverTerminated == pc # "crashed"

\* C9 (failed detail fetch writes nothing): when _rawg_get gives no detail
\* record (404, retries exhausted, or a 200 whose body does not parse),
\* enrich_one returns False with every table unchanged, having issued the
\* detail request and no other
C9_FailedFetchWritesNothing ==
    [][(/\ pc = "details"
        /\ snap.plans["details"] \in {NotFound, Exhausted, Unparsable})
          => /\ db' = db
             /\ requested' = {"details"}
             /\ pc' = "returned" /\ result' = FALSE]_vars

\* enrich_one returned False on an unparsable detail body for an item that
\* an earlier call had stored with its relations
C9_UnparsableOnStored ==
    /\ pc = "returned" /\ ~result
    /\ snap.plans["details"] = Unparsable
    /\ gid \in DOMAIN db.games /\ ~NoRowFor(db.game_developers, gid)
    /\ requested = {"details"}

\* the relations needs_enrich asks for
OracleRelations ==
    {"game_developers", "game_publishers", "game_tags", "game_series_links",
     "game_additions_links", "game_genres", "game_platforms", "game_stores"}

\* C10 (completeness oracle): for an ID with an item row, needs_enrich is
\* true exactly when description, website, age_rating or cover_image is null
\* or empty, or one of the eight relations has no row for the item
C10_OracleIff ==
    \A g \in DOMAIN db.games :
        needs_enrich(db, g) <=>
            \/ \E f \in {"description", "website", "age_rating", "cover_image"} :
                  db.games[g][f] \in {Null, Empty}
            \/ \E t \in OracleRelations : RowsFor(db[t], g) = {}

\* an item with every scalar and every relation but its tags populated,
\* for which needs_enrich is true
C10_OnlyTagsMissing ==
    \E g \in DOMAIN db.games :
        /\ needs_enrich(db, g)
        /\ \A f \in {"description", "website", "age_rating", "cover_image"} :
              db.games[g][f] \notin {Null, Empty}
        /\ \A t \in OracleRelations \ {"game_tags"} : RowsFor(db[t], g) # {}
        /\ RowsFor(db.game_tags, g) = {}

Min(a, b) == IF a <= b THEN a ELSE b

\* the least k with k * d >= a
CeilDiv(a, d) == (a + d - 1) \div d

\* C11 (pagination): for a listing of n pages of size images each and a soft
\* cap c, fetch_all_screenshots returns exactly min(n*size, c) images and
\* issues exactly ceil(min(n*size, c) / size) page requests
C11_Pagination ==
    (probe.fn = "fetch_all_screenshots" /\ probe.done) =>
        LET m == Min(probe.arg.n * probe.arg.size, probe.arg.cap)
        IN /\ Len(probe.out.images) = m
           /\ probe.out.pages = CeilDiv(m, probe.arg.size)

\* C12 (colour partition): metascore_color gives null for null, and for
\* every integer n of 0..100 exactly one colour: green iff 75 <= n <= 100,
\* yellow iff 50 <= n <= 74, red iff 0 <= n <= 49
C12_ColorPartition ==
    (probe.fn = "metascore_color" /\ probe.done) =>
        /\ probe.arg = NoInt => probe.out = Null
        /\ (probe.arg # NoInt /\ probe.arg[1] \in 0..100) =>
              LET n == probe.arg[1]
              IN /\ probe.out \in {<<"green">>, <<"yellow">>, <<"red">>}
                 /\ probe.out = <<"green">> <=> (75 <= n /\ n <= 100)
                 /\ probe.out = <<"yellow">> <=> (50 <= n /\ n <= 74)
                 /\ probe.out = <<"red">> <=> (0 <= n /\ n <= 49)

\* metascore_color was applied to the lowest green score
C12_Green75 ==
    /\ probe.fn = "metascore_color" /\ probe.done
    /\ probe.arg = <<75>> /\ probe.out = <<"green">>

\* C13 (colour follows number): every item row has metascore_color equal to
\* the colour of its metascore_number, null when the number is null
C13_ColorOfNumber ==
    \A g \in DOMAIN db.games :
        db.games[g].metascore_color = metascore_color(db.games[g].metascore_number)

\* C18 (no regression to empty): a scalar field of an item that is not null
\* or empty before a step is not null or empty after it
C18_NoRegression ==
    [][\A g \in DOMAIN db.games : \A f \in ScalarFields :
          ~BlankField(db.games[g], f) =>
              (g \in DOMAIN db'.games /\ ~BlankField(db'.games[g], f))]_vars

\* an item with every scalar filled has just been updated from the record
\* whose text fields are empty strings
C18_EmptyRecordOnFilled ==
    /\ pc = "lists" /\ snap.data = "odd"
    /\ \A f \in ScalarFields : ~BlankField(db.games[gid], f)
    /\ db.games[gid].website = Site("a")

\* the detail record with name, released, metacritic 82 and one genre only,
\* every sub-resource empty
SparseSnapshot == [data |-> "sparse", plans |-> AllOk]

\* C14 (end to end): in a full run on a store without items, once item g,
\* whose detail record carries only name Sample, released 2020-01-01,
\* metacritic 82 and genre (4, Action), has been enriched and is the only
\* item, its row has metascore 82 / green, the genre vocabulary is exactly
\* (4, Action), the genre links are exactly (g, 4), and needs_enrich(g) is
\* true, also after the sweep has enriched g from the same record again; a
\* pass from a full record makes it false
C14_EndToEnd ==
    \A g \in Ids :
        (/\ g \notin listed /\ upstream[g] = SparseSnapshot
         /\ DOMAIN db.games = {g}
         /\ ~(gid = g /\ pc \in EnrichPcs \ {"details"}))
            => /\ db.games[g].name = <<"Sample">>
               /\ db.games[g].released = <<"2020-01-01">>
               /\ db.games[g].metascore_number = <<82>>
               /\ db.games[g].metascore_color = <<"green">>
               /\ db.genres = SetToBag({<<4, <<"Action">>>>})
               /\ db.game_genres = SetToBag({<<g, 4>>})
               /\ needs_enrich(db, g)
               /\ ~needs_enrich(enrich_one(db, g, [data |-> "a", plans |-> AllOk], boot).db, g)

\* a full run enriched item 1 from the sparse record in both passes and
\* reached the summary with the oracle still true
C14_SparseTwice ==
    /\ pc = "summary" /\ listed = {} /\ upstream[1] = SparseSnapshot
    /\ DOMAIN db.games = {1} /\ calls = <<1, 1>>
    /\ ins_ok = 1 /\ en_ok = 1
    /\ needs_enrich(db, 1)

\* a call of _rawg_get has been made on its own
Called == probe.fn = "_rawg_get" /\ probe.done

\* the response has the status (the request did not raise)
HasStatus(r, statuses) == ~r.exc /\ r.status \in statuses

\* C15 (404 is never retried): once a response of a call has status 404,
\* that request is the last of the call
C15_NotFoundNotRetried ==
    Called =>
        \A k \in 1..probe.out.n :
            HasStatus(Answer(probe.arg, k), {404}) => probe.out.n = k

\* a 404 after a retried 500 ended the call with its second request
C15_NotFoundAfterRetry ==
    /\ Called /\ probe.arg = <<Resp(500), Resp(404), Resp(200)>>
    /\ probe.out.n = 2 /\ probe.out.out = "none"

\* the call ended in a failure: its retries exhausted on 429/5xx answers, or a
\* 200 answer whose body does not parse
EndedInFailure ==
    LET last == Answer(probe.arg, probe.out.n)
    IN \/ last = BadBody
       \/ HasStatus(last, {429, 500, 502, 503, 504}) /\ probe.out.n = max_retries

\* C16 as stated (three outcomes): what the caller gets for a failure differs
\* from what it gets for a 404
C16_NotFoundDistinct ==
    (Called /\ EndedInFailure) => probe.out.out # _rawg_get(NotFound).out

\* C16 amended (two values and an exception): the caller gets the parsed
\* body exactly when the last response is a 200 that parses; it gets None
\* for a 404, for an unparsable 200 and for exhausted retries alike; every
\* other ending is an exception
C16_NoneForNotFoundAndFailure ==
    Called =>
        LET last == Answer(probe.arg, probe.out.n)
        IN /\ probe.out.out = "json" <=> last = Resp(200)
           /\ (HasStatus(last, {404}) \/ EndedInFailure) => probe.out.out = "none"
           /\ probe.out.out = "raise" <=>
                 (last.exc \/ HasStatus(last, (400..599) \ {404, 429, 500, 502, 503, 504}))

\* a call whose retries were exhausted returned what a 404 returns
C16_ExhaustedLikeNotFound ==
    /\ Called /\ probe.arg = Exhausted
    /\ probe.out.out = "none" /\ _rawg_get(NotFound).out = "none"

\* C17 as stated (retry iff 429 or any 5xx): request k of a call is followed
\* by another exactly when its response is a 429 or any 5xx status and
\* attempts remain; at most max_retries requests are issued
C17_RetryIffAny5xx ==
    Called =>
        /\ probe.out.n \in 1..max_retries
        /\ \A k \in 1..probe.out.n :
              k < probe.out.n <=>
                  /\ HasStatus(Answer(probe.arg, k), {429} \cup (500..599))
                  /\ k < max_retries

\* C17 amended: request k is followed by another exactly when attempts
\* remain and its response is 429, 500, 502, 503 or 504, or a status other
\* than 200 that raise_for_status lets pass (below 400); 501, 505 and the
\* other 4xx end the call with an exception; at most max_retries requests
C17_RetryIffListed ==
    Called =>
        /\ probe.out.n \in 1..max_retries
        /\ \A k \in 1..probe.out.n :
              k < probe.out.n <=>
                  /\ HasStatus(Answer(probe.arg, k),
                               {429, 500, 502, 503, 504} \cup ((100..399) \ {200}))
                  /\ k < max_retries

\* a 429 and two 5xx answers used up the three attempts, and a 501 ended
\* another call at once
C17_ThreeAttempts ==
    /\ Called /\ probe.arg = <<Resp(429), Resp(503), Resp(500)>>
    /\ probe.out.n = 3 /\ probe.out.out = "none"
    /\ _rawg_get(<<Resp(501)>>) = [out |-> "raise", n |-> 1]

\* C19 (item IDs only grow): no step removes an item row; a step adds a row
\* only for the item whose detail fetch has just succeeded, and a successful
\* detail fetch leaves a row for its item
C19_ItemsOnlyGrow ==
    [][/\ DOMAIN db.games \subseteq DOMAIN db'.games
       /\ \A g \in DOMAIN db'.games \ DOMAIN db.games :
             /\ pc = "details" /\ g = gid
             /\ _rawg_get(snap.plans["details"]).out = "json"
       /\ (pc = "details" /\ pc' = "lists") => gid \in DOMAIN db'.games]_vars

\* a call for an already stored item failed on its detail fetch (None or an
\* exception): the row is still there
C19_RowsSurviveFailure ==
    /\ pc \in {"returned", "crashed"}
    /\ _rawg_get(snap.plans["details"]).out # "json"
    /\ gid \in DOMAIN db.games

\* the IDs that name an asset folder and had no item row at the run start
Orphans == {f.id : f \in {x \in folders : x.numeric}} \ listed

\* the calls of the first pass: every call so far while the pass is running,
\* the calls made before the sweep once it has ended
FirstPassCalls ==
    IF phase = "pass1" THEN calls ELSE SubSeq(calls, 1, Cardinality(Orphans))

Range(q) == {q[i] : i \in DOMAIN q}

\* C21 (completeness sweep): the sweep starts with every item of the store to
\* visit, in ascending order; each visit takes the lowest remaining ID,
\* consults needs_enrich on the store of that moment, and calls enrich_one
\* for it exactly when the oracle holds; a visit of an item the oracle finds
\* complete makes no request and changes nothing; the sweep that reaches the
\* summary has visited every item
C21_Sweep ==
    [][/\ (phase = "pass1" /\ phase' = "sweep") =>
              /\ Range(queue') = DOMAIN db.games
              /\ \A i, j \in DOMAIN queue' : i < j => queue'[i] < queue'[j]
       /\ (phase = "sweep" /\ pc = "sweep_loop" /\ queue # <<>>) =>
              LET g == Head(queue)
              IN /\ queue' = Tail(queue)
                 /\ needs_enrich(db, g) =>
                        /\ calls' = Append(calls, g)
                        /\ pc' = "details" /\ gid' = g
                 /\ ~needs_enrich(db, g) =>
                        /\ calls' = calls /\ pc' = "sweep_loop"
                        /\ requested' = requested /\ db' = db
       /\ (phase = "sweep" /\ calls' # calls) =>
              /\ pc = "sweep_loop" /\ queue # <<>>
              /\ needs_enrich(db, Head(queue))
       /\ pc' = "summary" => queue = <<>>]_vars

\* a sweep over two items that called enrich_one for the first and passed
\* over the second, which the first pass had completed
C21_OneCalledOneSkipped ==
    /\ pc = "summary" /\ listed = {1}
    /\ DOMAIN db.games = {1, 2}
    /\ calls = <<2, 1>>

\* C22 (no retry within a run): main never passes to enrich_one the ID of the
\* call that has just returned False
C22_FailedIdNotCalledAgain ==
    [][(pc = "list_loop" /\ pc' = "details") =>
          ~(prev.gid = gid' /\ ~prev.result)]_vars

\* the command line named an ID twice, the first call returned False and the
\* second call for the same ID is under way
C22_CalledAgainAfterFailure ==
    /\ pc \in EnrichPcs
    /\ prev.gid = gid /\ ~prev.result

\* the (position, suggested id) pairs stored for an item
StoredRanks(g) == {<<r[2], r[3]>> : r \in RowsFor(db.game_suggestions, g)}

\* the (position, id) pairs of the first candidates of a response
LatestRanks(s) ==
    LET results == SuggestedResults(s.data)
    IN {<<i, results[i].id>> : i \in 1..Min(SUGGEST_LIMIT, Len(results))}

\* C23 (suggestions reflect the latest snapshot): when enrich_one has returned
\* for an item whose suggestions request was answered, the suggestion rows
\* of the item are the first candidates of that answer at positions 1..k,
\* and no other row
C23_LatestSnapshotOnly ==
    (/\ pc = "returned" /\ result
     /\ _rawg_get(snap.plans["suggested"]).out = "json")
        => StoredRanks(gid) = LatestRanks(snap)

\* a rerun whose answer has one candidate has returned, and the second rank
\* of the earlier answer is still stored
C23_StaleRankKept ==
    /\ pc = "returned" /\ result
    /\ _rawg_get(snap.plans["suggested"]).out = "json"
    /\ LatestRanks(snap) = {<<1, 31>>}
    /\ <<2, 22>> \in StoredRanks(gid)

\* the legacy rows of n images fetched by one pass: the first 40 of them
LegacyRowsOf(n, pass) ==
    SetToBag({<<1, PassImages(n, pass)[i]>> : i \in 1..Min(n, LEGACY_LIMIT)})

\* C24 (legacy mirror): store_media_images leaves a legacy table that holds a
\* row of the item as it is; into a table without a row of the item it
\* writes the first 40 fetched images and no more; so the item never has
\* more than 40 legacy rows when it started with none, and the rows of the
\* first pass that found images are what the second pass leaves
C24_LegacyMirror ==
    (probe.fn = "store_media_images" /\ probe.done) =>
        LET a == probe.arg
            o == probe.out
        IN /\ a.had > 0 => (o.first = o.start /\ o.second = o.start)
           /\ a.had = 0 =>
                /\ o.first = LegacyRowsOf(a.n, "first")
                /\ a.n > 0 => o.second = o.first
                /\ a.n = 0 => o.second = LegacyRowsOf(a.m, "second")
                /\ BagCardinality(o.first) <= LEGACY_LIMIT
                /\ BagCardinality(o.second) <= LEGACY_LIMIT

\* the first pass fetched more than 40 images into an empty legacy table and
\* the second pass fetched others: the table holds the first 40 of the first
C24_FortyKept ==
    /\ probe.fn = "store_media_images" /\ probe.done
    /\ probe.arg = [had |-> 0, n |-> LEGACY_LIMIT + 2, m |-> LEGACY_LIMIT + 1]
    /\ BagCardinality(probe.out.second) = LEGACY_LIMIT
    /\ probe.out.second = probe.out.first

\* C25 (normalizer): both functions named normalize_rawg_image are
\* idempotent, return None for None, and return a URL that does not contain
\* the media prefix unchanged
C25_IdempotentPassThrough ==
    (probe.fn \in {"normalize_rawg_image", "fetch_games.normalize_rawg_image"}
     /\ probe.done) =>
        /\ probe.out.twice = probe.out.once
        /\ probe.arg = Null => probe.out.once = Null
        /\ (Truthy(probe.arg) /\ ~HasMediaPrefix(probe.arg)) => probe.out.once = probe.arg

\* the normalizer of fetch_games.py moved an image of another host onto the
\* media host of the provider
C25_ForeignHostRewritten ==
    /\ probe.fn = "fetch_games.normalize_rawg_image" /\ probe.done
    /\ probe.arg = <<"https:", "", "cdn.example", "media", "games", "a.jpg">>
    /\ probe.out.once = <<"https:", "", "media.rawg.io", "media", "games", "a.jpg">>

\* the part of C25 that holds: both normalizers are idempotent and return
\* None for None, and the normalizer of fix_orphans_and_enrich.py returns a
\* URL without the media prefix unchanged
C25_Idempotent ==
    (probe.fn \in {"normalize_rawg_image", "fetch_games.normalize_rawg_image"}
     /\ probe.done) =>
        /\ probe.out.twice = probe.out.once
        /\ probe.arg = Null => probe.out.once = Null
        /\ (probe.fn = "normalize_rawg_image" /\ Truthy(probe.arg)
            /\ ~HasMediaPrefix(probe.arg)) => probe.out.once = probe.arg

\* a value the normalizer returns: None, or a URL it leaves as it is
Normalized(u) == normalize_rawg_image(u) = u

\* C26 (stored image URLs are normalized): every stored cover image, image
\* row of media, preview of a video row, image of a suggestion and legacy
\* screenshot URL is a fixed point of normalize_rawg_image
C26_StoredImagesNormalized ==
    /\ \A g \in DOMAIN db.games : Normalized(db.games[g].cover_image)
    /\ \A r \in BagToSet(db.media) :
          /\ r[2] = "image" => Normalized(r[3])
          /\ r[2] = "video" => Normalized(r[4])
    /\ \A r \in BagToSet(db.game_suggestions) : Normalized(r[5])
    /\ \A r \in BagToSet(db.screenshots) : Normalized(r[2])

\* a video row is stored whose preview still carries the resize segment
\* the normalizer removes
C26_RawPreviewStored ==
    \E r \in BagToSet(db.media) :
        /\ r[2] = "video"
        /\ r[4] = Url(<<"resize", "640", "-", "games", "p2.jpg">>)
        /\ normalize_rawg_image(r[4]) = Url(<<"games", "p2.jpg">>)

\* C27 (order independence of vocabulary writes): on a fixed provider,
\* enriching two items in one order, in the other order, or more than once
\* leaves the same genres, platforms, game_genres and game_platforms rows
C27_OrderIndependent ==
    (probe.fn = "enrich_one order" /\ probe.done) =>
        /\ probe.out.fwd = probe.out.rev
        /\ probe.out.more = probe.out.fwd

\* item 1 has genre 4 "Action" and item 2 genre 5 "Action": the order 1, 2
\* leaves genre row 4 only, the order 2, 1 leaves genre row 5 only
C27_FirstNameWins ==
    /\ probe.fn = "enrich_one order" /\ probe.done
    /\ probe.arg.boot = "games_only"
    /\ BagToSet(probe.out.fwd["genres"]) = {<<4, <<"Action">>>>}
    /\ BagToSet(probe.out.rev["genres"]) = {<<5, <<"Action">>>>}

\* the part of C27 that holds: on a store whose vocabulary tables have no
\* unique name, the order and the repetitions make no difference
C27_OrderIndependentById ==
    (probe.fn = "enrich_one order" /\ probe.done /\ probe.arg.boot = "db_prepare_BEFORE") =>
        /\ probe.out.fwd = probe.out.rev
        /\ probe.out.more = probe.out.fwd

\* the tables whose rows belong to one item (first column: the item's ID)
ChildTables ==
    {"game_developers", "game_publishers", "game_tags", "game_genres", "game_platforms",
     "game_stores", "game_series_links", "game_additions_links", "media", "screenshots",
     "game_suggestions"}

\* C28 (ownership): every row of every child table carries the ID of an item
\* that has a row in games
C28_ChildrenOwned ==
    \A t \in ChildTables : \A r \in BagToSet(db[t]) : r[1] \in DOMAIN db.games

\* the record fetched for item 1 reported another ID: the item row was
\* written under that ID, the child rows under 1, and 1 has no item row
C28_ChildrenOfNoItem ==
    /\ pc = "returned" /\ gid = 1 /\ snap.data = "moved"
    /\ DOMAIN db.games = {1 + MaxId}
    /\ \A t \in ChildTables \ {"game_stores"} : RowsFor(db[t], 1) # {}

\* C29 (slug uniqueness): no two item rows have the same slug
C29_SlugsUnique ==
    \A g, h \in DOMAIN db.games : g # h => db.games[g].slug # db.games[h].slug

\* the record of item 1 has the slug "2"; the record of item 2 has no slug,
\* so its slug is the decimal string of its ID: both rows have the slug "2"
C29_DefaultSlugTaken ==
    /\ DOMAIN db.games = {1, 2}
    /\ db.games[1].slug = <<"2">>
    /\ db.games[2].slug = <<"2">>
    /\ pc = "returned" /\ gid = 2 /\ snap.data \in {"sparse", "odd"}

\* the names stored for an item in a table of (item, name) rows
StoredNames(table, g) == {r[2] : r \in RowsFor(table, g)}

\* C30 (the read API serves what the pipeline stored): for every item that
\* get_game finds by its slug, the developers, publishers and tags of the
\* response are the names stored for the item, and the suggestions are the
\* stored positions in ascending order, 24 at most
C30_ApiServesStored ==
    \A g \in DOMAIN db.games :
        LET r == get_game(db, db.games[g].slug)
        IN r.id = g =>
             /\ r.developers = StoredNames(db.game_developers, g)
             /\ r.publishers = StoredNames(db.game_publishers, g)
             /\ r.tags = StoredNames(db.game_tags, g)
             /\ r.suggestions =
                    FirstN(SortedSeq({x[2] : x \in RowsFor(db.game_suggestions, g)}), 24)

\* enrich_one has stored developers, publishers, tags and suggestions for an
\* item, and the response for its slug has four empty lists
C30_StoredButNotServed ==
    /\ pc = "returned" /\ result
    /\ StoredNames(db.game_developers, gid) # {}
    /\ StoredNames(db.game_publishers, gid) # {}
    /\ StoredNames(db.game_tags, gid) # {}
    /\ RowsFor(db.game_suggestions, gid) # {}
    /\ get_game(db, db.games[gid].slug) =
          [status |-> 200, id |-> gid, developers |-> {}, publishers |-> {},
           tags |-> {}, suggestions |-> <<>>]

\* C31 (the read API tolerates absent optional parts): whatever subset of
\* the optional tables and columns the schema lacks, get_games returns every
\* item of the games table and get_game answers 200 with the item for the
\* slug of every item
C31_ToleratesAbsentParts ==
    (probe.fn = "games_api" /\ probe.done) =>
        /\ {i.id : i \in probe.out.list} = probe.out.ids
        /\ \A g \in probe.out.ids :
              probe.out.detail[g].status = 200 /\ probe.out.detail[g].id = g

\* a store of two items without the metascore columns: get_games returns no
\* item and get_game fails for both slugs
C31_ItemsDropped ==
    /\ probe.fn = "games_api" /\ probe.done
    /\ probe.arg.absent = {"metascore"}
    /\ probe.out.ids = {1, 2}
    /\ probe.out.list = {}
    /\ \A g \in probe.out.ids : probe.out.detail[g] = [status |-> 500]

\* with screenshots, genres, platforms and the metascore columns in place,
\* the absence of the other parts costs no item and no response
C31_GuardedPartsTolerated ==
    (probe.fn = "games_api" /\ probe.done
     /\ probe.arg.absent \cap {"screenshots", "genres", "platforms", "metascore"} = {}) =>
        /\ {i.id : i \in probe.out.list} = probe.out.ids
        /\ \A g \in probe.out.ids :
              probe.out.detail[g].status = 200 /\ probe.out.detail[g].id = g

\* C32 (eventual completeness): against a fixed provider whose every fetch
\* succeeds, repeated full runs eventually reach a store in which
\* needs_enrich is false for every item
C32_EventuallyComplete ==
    <>(\A g \in DOMAIN db.games : ~needs_enrich(db, g))

\* the last of the runs has reached its summary, its sweep has called
\* enrich_one for an item whose record has no website, age rating, series,
\* additions or stores, and the oracle still selects the item
C32_SparseNeverComplete ==
    /\ pc = "summary" /\ launches = MaxLaunches
    /\ \E g \in DOMAIN db.games :
          /\ upstream[g] = SparseSnapshot
          /\ \E i \in DOMAIN calls : calls[i] = g
          /\ needs_enrich(db, g)

\* the items whose record fills every field and relation the oracle asks
\* for are complete at the summary of the first run, and stay so
C32_FullRecordsComplete ==
    pc = "summary" =>
        \A g \in DOMAIN db.games :
            upstream[g] = [data |-> "a", plans |-> AllOk] => ~needs_enrich(db, g)

\* whatever the number of runs, an item whose record has none of the fields
\* and relations is selected by the oracle in every state
C32_SparseAlwaysSelected ==
    \A g \in DOMAIN db.games : upstream[g] = SparseSnapshot => needs_enrich(db, g)

\* C33 (run tallies are exact): a tally step adds one to the ok counter of
\* its pass when the call returned True and one to the other counter of the
\* pass when it returned False, and leaves the counters of the other pass
\* alone; a visit of an item the oracle finds complete changes no counter;
\* and at the summary ins_ok + ins_fail is the number of orphan IDs and
\* en_ok + en_skip is the number of calls the sweep made
C33_TalliesExact ==
    [][/\ (pc = "returned" /\ phase = "pass1") =>
              /\ ins_ok' = ins_ok + (IF result THEN 1 ELSE 0)
              /\ ins_fail' = ins_fail + (IF result THEN 0 ELSE 1)
              /\ en_ok' = en_ok /\ en_skip' = en_skip
       /\ (pc = "returned" /\ phase = "sweep") =>
              /\ en_ok' = en_ok + (IF result THEN 1 ELSE 0)
              /\ en_skip' = en_skip + (IF result THEN 0 ELSE 1)
              /\ ins_ok' = ins_ok /\ ins_fail' = ins_fail
       /\ (pc \in EnrichPcs \/ (pc = "sweep_loop" /\ pc' = "sweep_loop")
           \/ pc' = "summary") => tallies' = tallies
       /\ pc' = "summary" =>
              /\ ins_ok + ins_fail = Cardinality(Orphans)
              /\ en_ok + en_skip = Len(calls) - Cardinality(Orphans)]_vars

\* item 1 was listed and the provider has no record of it, item 2 is an
\* orphan with a full record: the summary counts one success of the first
\* pass and one failure of the sweep, and the sweep's visit of item 2, which
\* the oracle found complete, is counted nowhere
C33_OneOfEach ==
    /\ pc = "summary" /\ listed = {1} /\ Orphans = {2}
    /\ calls = <<2, 1>>
    /\ tallies = <<1, 0, 0, 1>>

\* C34 (the soft cap bounds the request volume): whatever the provider
\* answers, fetch_all_screenshots with a cap of c images (c >= 1) makes at
\* most c page requests
C34_CapBoundsRequests ==
    (probe.fn = "fetch_all_screenshots blank" /\ probe.done) =>
        probe.out.pages <= probe.arg.cap

\* a cap of one image, and a listing of MaxPages pages without an image
\* before a last page: one request per page of the listing was made
C34_RequestsPastTheCap ==
    /\ probe.fn = "fetch_all_screenshots blank" /\ probe.done
    /\ probe.arg.cap = 1 /\ probe.arg.blank = MaxPages
    /\ probe.out.pages = MaxPages + 1

\* the number of requests is the length of the listing, whatever the cap
C34_RequestsFollowListing ==
    (probe.fn = "fetch_all_screenshots blank" /\ probe.done) =>
        probe.out.pages = probe.arg.blank + 1

\* the media rows of an item and a kind
MediaOf(g, kind) == {r \in BagToSet(db.media) : r[1] = g /\ r[2] = kind}

\* C35 (media positions define a display order): the media rows of one item
\* and one kind have pairwise distinct positions
C35_PositionsDistinct ==
    \A g \in Ids : \A kind \in {"image", "video"} :
        \A r1, r2 \in MediaOf(g, kind) : r1[5] = r2[5] => r1 = r2

\* two passes over an item, the provider's first video having changed in
\* between: two video rows of the item hold position 1
C35_TwoAtPositionOne ==
    /\ pc = "returned" /\ result
    /\ Cardinality({r \in MediaOf(gid, "video") : r[5] = 1}) = 2

\* the pass that stores the first images of an item gives the i-th image of
\* the fetched list position i
C35_FirstPassPositions ==
    [][(pc = "images" /\ MediaOf(gid, "image") = {}) =>
          {r \in BagToSet(db'.media) : r[1] = gid /\ r[2] = "image"} =
              {<<gid, "image", CurImages[i], Null, i>> : i \in DOMAIN CurImages}]_vars

\* C36 (link rows never dangle): every genre-link, platform-link and
\* store-link row names a vocabulary ID that has a row in genres, platforms
\* or stores
C36_LinksResolve ==
    \A t \in {"genres", "platforms", "stores"} :
        \A l \in BagToSet(db["game_" \o t]) :
            \E v \in BagToSet(db[t]) : v[1] = l[2]

\* two items whose records name the same genre under different IDs: the
\* second item's genre link names an ID that genres has no row for, the name
\* being held by the row of the first ID
C36_DanglingGenreLink ==
    /\ pc = "returned" /\ result
    /\ \E l \in BagToSet(db.game_genres) :
          /\ l[1] = gid
          /\ \A v \in BagToSet(db.genres) : v[1] # l[2]
          /\ \E d \in DOMAIN CurDetails.genres :
                /\ CurDetails.genres[d].id = l[2]
                /\ \E v \in BagToSet(db.genres) : v[2] = CurDetails.genres[d].name

\* on tables without the unique name (the bootstrap of db_prepare_BEFORE.py)
\* every genre and platform link resolves
C36_LinksResolveById ==
    boot = "db_prepare_BEFORE" =>
        \A t \in {"genres", "platforms"} :
            \A l \in BagToSet(db["game_" \o t]) : \E v \in BagToSet(db[t]) : v[1] = l[2]

\* C37 (schema retrofit keeps insert-if-absent effective): enrich_one called
\* again for the item of the call that has just succeeded, on the same
\* snapshot, adds no row to the series-link and additions-link tables
C37_RerunAddsNoLinkRow ==
    [][(pc = "links" /\ prev.gid = gid /\ prev.snap = snap /\ prev.result) =>
          /\ db'.game_series_links = db.game_series_links
          /\ db'.game_additions_links = db.game_additions_links]_vars

\* the store was first created by db_prepare_BEFORE.py: after the second
\* call's upsert_links the item has every series link twice
C37_LinkRowsDoubled ==
    /\ boot = "db_prepare_BEFORE"
    /\ pc = "shots" /\ prev.gid = gid /\ prev.snap = snap /\ prev.result
    /\ RowsFor(db.game_series_links, gid) # {}
    /\ \A r \in RowsFor(db.game_series_links, gid) :
          CopiesIn(r, db.game_series_links) = 2

\* on the tables ensure_schema creates itself the second call adds no row
C37_RerunAddsNoLinkRowOwnSchema ==
    [][(boot = "games_only" /\ pc = "links" /\ prev.gid = gid /\ prev.snap = snap
        /\ prev.result) =>
          /\ db'.game_series_links = db.game_series_links
          /\ db'.game_additions_links = db.game_additions_links]_vars

\* C38 (one enrichment per item and run): within one full run enrich_one is
\* called at most once for every ID
C38_AtMostOncePerRun ==
    \A i, j \in DOMAIN calls : calls[i] = calls[j] => i = j

\* item 1 is an orphan whose record has none of the optional fields: the
\* first pass enriched it with success, and the sweep of the same run
\* enriched it again
C38_OrphanEnrichedTwice ==
    /\ pc = "summary" /\ Orphans = {1}
    /\ upstream[1] = SparseSnapshot
    /\ calls = <<1, 1>>
    /\ ins_ok = 1 /\ en_ok = 1

\* an orphan whose record fills everything the oracle asks for is enriched
\* once: the sweep passes over it
C38_CompleteOrphanOnce ==
    \A g \in Orphans :
        upstream[g] = [data |-> "a", plans |-> AllOk] =>
            Cardinality({i \in DOMAIN calls : calls[i] = g}) <= 1

\* C39 (http_get of the fetch script): a request is repeated only after a
\* 429, 500, 502, 503 or 504 response or an exception of the request itself,
\* so that any other status ends the call after that request with None; at
\* most `retries` requests are made, no exception leaves the call, and the
\* body of the first 200 is returned
C39_HttpGet ==
    (probe.fn = "http_get" /\ probe.done) =>
        LET plan == probe.arg
            n == probe.out.n
            Repeats(r) == r.exc \/ r.status \in {429, 500, 502, 503, 504}
        IN /\ n <= retries
           /\ probe.out.out # "raise"
           /\ \A k \in 1..(n - 1) : Repeats(Answer(plan, k))
           /\ \A k \in 1..n :
                 (~Repeats(Answer(plan, k)) /\ Answer(plan, k).status # 200) =>
                     n = k /\ probe.out.out = "none"
           /\ probe.out.out = "json" => Answer(plan, n) = Resp(200)

\* the provider answers 404: three requests were made before None was
\* returned
C39_NotFoundRepeated ==
    /\ probe.fn = "http_get" /\ probe.done
    /\ probe.arg = <<Resp(404)>>
    /\ probe.out = [out |-> "none", n |-> retries]

\* at most `retries` requests are made, no exception leaves the call, the
\* body of the first 200 that parses is returned with no request after it,
\* and None is returned only after `retries` requests
C39_BoundedAndSilent ==
    (probe.fn = "http_get" /\ probe.done) =>
        LET plan == probe.arg
            n == probe.out.n
        IN /\ n <= retries
           /\ probe.out.out \in {"json", "none"}
           /\ probe.out.out = "json" <=> Answer(plan, n) = Resp(200)
           /\ \A k \in 1..(n - 1) : Answer(plan, k) # Resp(200)
           /\ probe.out.out = "none" => n = retries

====
